---- MODULE Spec2Model ----
(***************************************************************************)
(* PodIPPoolReconciler (pkg/bgpv1/manager/reconcilerv2/pod_ip_pool.go):    *)
(* the BGP control-plane reconciler that advertises the pod IP pool CIDRs  *)
(* allocated to the local node.  The model keeps the reconciler's          *)
(* per-instance metadata, the pool store it reads, the local node and the  *)
(* peer advertisements it is called with, and the state of each            *)
(* instance's router as changed by the applies the reconciler issues.      *)
(*                                                                         *)
(* Go maps are modelled as functions whose DOMAIN is the key set.  A nil   *)
(* map and an empty map are the same value wherever the code only takes    *)
(* len() of them or ranges over them; a named policy set or a path set is  *)
(* a set, the empty set standing for both nil and empty.                   *)
(***************************************************************************)
EXTENDS Integers, Sequences, FiniteSets, TLC

VARIABLES
    metadata,    \* r.metadata: instance name -> PodIPPoolReconcilerMetadata
    router,      \* per instance: what its router currently holds, per resource key
    poolStore,   \* names of the pools the store holds
    storeInit,   \* FALSE while the store reports ErrStoreUninitialized
    node,        \* names of the pools allocated on the local CiliumNode
    adverts,     \* peer advertisements resolved from the desired configuration
    poolLabels,  \* pool name -> the Labels map of the pool object the store hands out
    synced,      \* per instance: outcome of its last Reconcile under the present inputs
    cur          \* the call in flight (or the one that has just returned); under
                 \* ConcurrentSpec, per instance, its call in flight

vars == <<metadata, router, poolStore, storeInit, node, adverts, poolLabels, synced, cur>>

----------------------------------------------------------------------------
(* Bounds *)

MaxPools == 2
MaxAdverts == 1
\* store events that may land within one Reconcile call
MaxStoreChanges == 1
\* advertisements of a configuration with several peers
MaxPeerAdverts == 2

----------------------------------------------------------------------------
(* The universe the inputs are drawn from *)

Instances == {"i1", "i2"}
\* The instances the orchestrator runs under Spec
Managed == {"i1"}

podIPPoolNameLabel == "io.cilium.podippool.name"
podIPPoolNamespaceLabel == "io.cilium.podippool.namespace"

\* CiliumPodIPPool objects: name, namespace, labels and per-family mask sizes.
PoolUniverse ==
    << [Name |-> "p1", Namespace |-> "", Labels |-> {<<"team", "a">>},
        IPv4MaskSize |-> 24, IPv6MaskSize |-> 64],
       [Name |-> "p2", Namespace |-> "", Labels |-> {<<"team", "b">>, <<podIPPoolNameLabel, "p1">>},
        IPv4MaskSize |-> 28, IPv6MaskSize |-> 96],
       [Name |-> "p3", Namespace |-> "", Labels |-> {},
        IPv4MaskSize |-> 26, IPv6MaskSize |-> 80] >>

Pools == {PoolUniverse[n] : n \in 1..MaxPools}
PoolNames == {p.Name : p \in Pools}
PoolByName(name) == CHOOSE p \in Pools : p.Name = name

\* resource.Key{Name, Namespace} of a pool
KeyOf(pool) == [Name |-> pool.Name, Namespace |-> pool.Namespace]
Keys == {KeyOf(p) : p \in Pools}

\* An allocation of the local node none of whose CIDR strings parses
UnparsedAllocation == "p0"

\* The pool names the local node may carry allocations for
AllocationNames == PoolNames \cup {UnparsedAllocation}

\* The CIDR strings the local node carries for an allocated pool; some do not
\* parse.
NodeCIDRs(name) ==
    CASE name = "p1" -> <<"10.1.0.0/24", "fd00:1::/64">>
      [] name = "p2" -> <<"10.2.0.0/33", "10.2.0.0/28">>
      [] name = UnparsedAllocation -> <<"not-a-cidr">>
      [] OTHER       -> <<"10.3.0.0/26", "fd00:3::/80">>

\* cidr.ToPrefix: the parsed prefix of a CIDR string, or Invalid.
Invalid == [Addr |-> "", Bits |-> 0, Is4 |-> FALSE, Valid |-> FALSE]
Prefix(addr, bits, is4) == [Addr |-> addr, Bits |-> bits, Is4 |-> is4, Valid |-> TRUE]
ToPrefix(cidr) ==
    CASE cidr = "10.1.0.0/24" -> Prefix("10.1.0.0", 24, TRUE)
      [] cidr = "10.2.0.0/28" -> Prefix("10.2.0.0", 28, TRUE)
      [] cidr = "10.3.0.0/26" -> Prefix("10.3.0.0", 26, TRUE)
      [] cidr = "fd00:1::/64" -> Prefix("fd00:1::", 64, FALSE)
      [] cidr = "fd00:3::/80" -> Prefix("fd00:3::", 80, FALSE)
      [] OTHER                -> Invalid

\* Peers of the instance configuration (PeerID{Name, Address}).
Peers == { [Name |-> "peer1", Address |-> "192.0.2.1"] }

\* v2.CiliumBGPFamily values and types.ToAgentFamily
Families == { [Afi |-> "ipv4", Safi |-> "unicast"], [Afi |-> "ipv6", Safi |-> "unicast"] }
ToAgentFamily(family) ==
    [Afi  |-> IF family.Afi = "ipv4" THEN "AfiIPv4"
              ELSE IF family.Afi = "ipv6" THEN "AfiIPv6" ELSE "AfiUnknown",
     Safi |-> IF family.Safi = "unicast" THEN "SafiUnicast" ELSE "SafiUnknown"]

\* Label selectors of advertisements: a set of match-label requirements, or a
\* selector that LabelSelectorAsSelector rejects.  Label maps are sets of
\* <<key, value>> pairs with each key at most once.
SelAll     == [Valid |-> TRUE,  MatchLabels |-> {}]
SelTeamA   == [Valid |-> TRUE,  MatchLabels |-> {<<"team", "a">>}]
SelTeamB   == [Valid |-> TRUE,  MatchLabels |-> {<<"team", "b">>}]
SelName1   == [Valid |-> TRUE,  MatchLabels |-> {<<podIPPoolNameLabel, "p1">>}]
SelInvalid == [Valid |-> FALSE, MatchLabels |-> {}]
Selectors  == {SelAll, SelTeamA, SelTeamB, SelName1, SelInvalid}

BGPCiliumPodIPPoolAdvert == "CiliumPodIPPool"

\* What an advertisement carries besides its type and selector and
\* CreatePolicy puts into the policy it makes of it
NoAttributes == "none"
SomeAttributes == "communities"

\* One advertisement placed under a peer and a family.
AdvertEntries ==
    {e \in [Peer : Peers, Family : Families,
            Advert : [AdvertisementType : {BGPCiliumPodIPPoolAdvert}, Selector : Selectors,
                      Attributes : {NoAttributes}]] :
        e.Family.Afi = "ipv6" => e.Advert.Selector = SelAll}

\* PeerAdvertisements, flattened: the sequence of (peer, family, advertisement)
\* in the order the lists hold them.
AdvertConfigs == UNION {[1..n -> AdvertEntries] : n \in 0..MaxAdverts}

\* Configurations with several advertisements and with peers that have no
\* address yet or an address that does not parse.
PeerNoAddress == [Name |-> "peer2", Address |-> ""]
PeerBadAddress == [Name |-> "peer3", Address |-> "not-an-address"]

PeerAdvertEntries ==
    {e \in [Peer : Peers \cup {PeerNoAddress, PeerBadAddress}, Family : Families,
            Advert : [AdvertisementType : {BGPCiliumPodIPPoolAdvert},
                      Selector : {SelAll, SelTeamA, SelInvalid},
                      Attributes : {NoAttributes, SomeAttributes}]] :
        /\ e.Peer \notin Peers => e.Family.Afi = "ipv4" /\ e.Advert.Selector = SelAll
        /\ e.Advert.Attributes # NoAttributes =>
              e.Peer \in Peers /\ e.Family.Afi = "ipv4" /\ e.Advert.Selector = SelTeamA}

PeerAdvertisements == UNION {[1..n -> PeerAdvertEntries] : n \in 0..MaxPeerAdverts}

----------------------------------------------------------------------------
(* Desired-state derivation *)

\* An error value; a joined error is the set of the errors it joins, nil the
\* empty set.
NoKey == [Name |-> "", Namespace |-> ""]
Err(kind, key) == [kind |-> kind, key |-> key]

\* Faulty variant: a pool with a CIDR that does not parse gets no entry.
populateLocalPools_DropsPool(localNode) ==
    [name \in {x \in localNode :
                 \A n \in DOMAIN NodeCIDRs(x) : ToPrefix(NodeCIDRs(x)[n]).Valid} |->
        [n \in DOMAIN NodeCIDRs(name) |-> ToPrefix(NodeCIDRs(name)[n])]]

\* populateLocalPools: allocated pool name -> the prefixes that parse.
populateLocalPools(localNode) ==
    [name \in localNode |->
        LET parsed == [n \in DOMAIN NodeCIDRs(name) |-> ToPrefix(NodeCIDRs(name)[n])]
        IN  SelectSeq(parsed, LAMBDA x : x.Valid)]

\* podIPPoolLabelSet: a clone of the pool's labels with the name and namespace
\* pseudo-labels set (overriding declared labels of the same key).
podIPPoolLabelSet(pool) ==
    {l \in pool.Labels : l[1] \notin {podIPPoolNameLabel, podIPPoolNamespaceLabel}}
        \cup {<<podIPPoolNameLabel, pool.Name>>, <<podIPPoolNamespaceLabel, pool.Namespace>>}

\* Faulty variant: the pseudo-labels are written into the pool's own map.
PoolAfterLabelSet_InPlace(pool) == [pool EXCEPT !.Labels = podIPPoolLabelSet(pool)]

\* The pool object once podIPPoolLabelSet has returned: the labels were
\* cloned and the clone written, the pool's own map is as it was.
PoolAfterLabelSet(pool) == pool

\* poolSelector.Matches(labelSet) for a converted selector
Matches(selector, labelSet) == selector.MatchLabels \subseteq labelSet

\* Faulty variant: the selector check is dropped.
PoolSelected_Always(advert, pool) == TRUE

\* The advertisement's selector matches the pool's label set
\* (poolSelector.Matches(podIPPoolLabelSet(pool)) of a valid selector).
PoolSelected(advert, pool) == Matches(advert.Selector, podIPPoolLabelSet(pool))

\* netip.ParseAddr succeeds
ParseAddrOK(address) == address \in {"192.0.2.1", "192.0.2.2"}

Range(seq) == {seq[n] : n \in DOMAIN seq}

\* types.NewPathForPrefix with the family set
Path(prefix, agentFamily) == [Prefix |-> prefix, Family |-> agentFamily]

\* Faulty variant: every prefix goes under every family.
FamilyOfPrefix_AnyVersion(agentFamily, prefix) == TRUE

\* whether the prefix belongs under the family
FamilyOfPrefix(agentFamily, prefix) ==
    \/ agentFamily.Afi = "AfiIPv4" /\ prefix.Is4
    \/ agentFamily.Afi = "AfiIPv6" /\ ~prefix.Is4

\* Faulty variant: the local pool map is read under some allocated pool's name
\* instead of this pool's.
LocalPrefixes_AnyPool(pool, lp) ==
    IF DOMAIN lp = {} THEN [exists |-> FALSE, prefixes |-> << >>]
    ELSE [exists |-> TRUE, prefixes |-> lp[CHOOSE n \in DOMAIN lp : TRUE]]

\* prefixes, exists := lp[pool.Name]
LocalPrefixes(pool, lp) ==
    IF pool.Name \in DOMAIN lp
    THEN [exists |-> TRUE, prefixes |-> lp[pool.Name]]
    ELSE [exists |-> FALSE, prefixes |-> << >>]

\* Faulty variant: the advertisements of a peer without address give no path.
getDesiredAFPaths_SkipsNoAddress(pool, desiredPeerAdverts, lp) ==
    LET typed == {e \in Range(desiredPeerAdverts) :
                     /\ e.Advert.AdvertisementType = BGPCiliumPodIPPoolAdvert
                     /\ e.Peer.Address # ""}
    IN  IF \E e \in typed : ~e.Advert.Selector.Valid
        THEN [err |-> {Err("selector", NoKey)}, paths |-> {}]
        ELSE [err |-> {},
              paths |->
                {Path(prefix, ToAgentFamily(e.Family)) :
                    <<e, prefix>> \in
                      {x \in typed \X (IF LocalPrefixes(pool, lp).exists
                                          THEN Range(LocalPrefixes(pool, lp).prefixes) ELSE {}) :
                          /\ PoolSelected(x[1].Advert, pool)
                          /\ FamilyOfPrefix(ToAgentFamily(x[1].Family), x[2])}}]

\* getDesiredAFPaths: the paths of one pool over all peers and families.
\* Returns [err, paths]; an AFPathsMap is the set of its paths, each carrying
\* its family.
getDesiredAFPaths(pool, desiredPeerAdverts, lp) ==
    LET typed == {e \in Range(desiredPeerAdverts) :
                     e.Advert.AdvertisementType = BGPCiliumPodIPPoolAdvert}
    IN  IF \E e \in typed : ~e.Advert.Selector.Valid
        THEN [err |-> {Err("selector", NoKey)}, paths |-> {}]
        ELSE [err |-> {},
              paths |->
                {Path(prefix, ToAgentFamily(e.Family)) :
                    <<e, prefix>> \in
                      {x \in typed \X (IF LocalPrefixes(pool, lp).exists
                                          THEN Range(LocalPrefixes(pool, lp).prefixes) ELSE {}) :
                          /\ PoolSelected(x[1].Advert, pool)
                          /\ FamilyOfPrefix(ToAgentFamily(x[1].Family), x[2])}}]

\* PolicyName(peer.Name, family.Afi.String(), advert.AdvertisementType, pool.Name)
PolicyName(peerName, afi, advertType, poolName) == <<peerName, afi, advertType, poolName>>

AfiString(afi) == IF afi = "AfiIPv4" THEN "ipv4" ELSE IF afi = "AfiIPv6" THEN "ipv6" ELSE "unknown"

\* Faulty variant: the match accepts every longer prefix as well.
PrefixMatch_OrLonger(prefix, len) == [CIDR |-> prefix, PrefixLenMin |-> len, PrefixLenMax |-> 128]

\* types.RoutePolicyPrefixMatch
PrefixMatch(prefix, len) == [CIDR |-> prefix, PrefixLenMin |-> len, PrefixLenMax |-> len]

NoPolicy == [Name |-> << >>, PeerAddr |-> "", V4 |-> << >>, V6 |-> << >>, Attributes |-> NoAttributes]

\* getPodIPPoolPolicy: [err, policy]; policy = NoPolicy stands for a nil policy.
getPodIPPoolPolicy(peer, family, pool, advert, lp) ==
    IF peer.Address = "" THEN [err |-> {}, policy |-> NoPolicy]
    ELSE IF ~ParseAddrOK(peer.Address) THEN [err |-> {Err("peerAddress", NoKey)}, policy |-> NoPolicy]
    ELSE IF ~advert.Selector.Valid THEN [err |-> {Err("selector", NoKey)}, policy |-> NoPolicy]
    ELSE IF ~PoolSelected(advert, pool) THEN [err |-> {}, policy |-> NoPolicy]
    ELSE IF ~LocalPrefixes(pool, lp).exists THEN [err |-> {}, policy |-> NoPolicy]
    ELSE
      LET prefixes == LocalPrefixes(pool, lp).prefixes
          v4 == IF family.Afi = "AfiIPv4" THEN SelectSeq(prefixes, LAMBDA x : x.Is4) ELSE << >>
          v6 == IF family.Afi = "AfiIPv6" THEN SelectSeq(prefixes, LAMBDA x : ~x.Is4) ELSE << >>
          v4Prefixes == [n \in DOMAIN v4 |-> PrefixMatch(v4[n], pool.IPv4MaskSize)]
          v6Prefixes == [n \in DOMAIN v6 |-> PrefixMatch(v6[n], pool.IPv6MaskSize)]
      IN  IF Len(v4Prefixes) = 0 /\ Len(v6Prefixes) = 0
          THEN [err |-> {}, policy |-> NoPolicy]
          ELSE [err |-> {},
                policy |-> [Name |-> PolicyName(peer.Name, AfiString(family.Afi),
                                                advert.AdvertisementType, pool.Name),
                            PeerAddr |-> peer.Address,
                            V4 |-> v4Prefixes, V6 |-> v6Prefixes,
                            Attributes |-> advert.Attributes]]

\* Faulty variant: a policy of a name already present is dropped.
PutPolicy_KeepsEarlier(desiredRoutePolicies, policy) ==
    IF \E q \in desiredRoutePolicies : q.Name = policy.Name
    THEN desiredRoutePolicies
    ELSE desiredRoutePolicies \cup {policy}

\* desiredRoutePolicies[policy.Name] = policy, a RoutePolicyMap being the set
\* of its policies
PutPolicy(desiredRoutePolicies, policy) ==
    {q \in desiredRoutePolicies : q.Name # policy.Name} \cup {policy}

\* getPodIPPoolPolicies: the named policies of one pool; a policy of a name
\* already present replaces it.  Returns [err, policies].
RECURSIVE PoliciesUpTo(_, _, _, _)
PoliciesUpTo(n, pool, desiredPeerAdverts, lp) ==
    IF n = 0 THEN {}
    ELSE LET e == desiredPeerAdverts[n]
             r == getPodIPPoolPolicy(e.Peer, ToAgentFamily(e.Family), pool, e.Advert, lp)
             before == PoliciesUpTo(n - 1, pool, desiredPeerAdverts, lp)
         IN  IF r.policy = NoPolicy THEN before
             ELSE PutPolicy(before, r.policy)

getPodIPPoolPolicies(pool, desiredPeerAdverts, lp) ==
    LET errs == UNION {getPodIPPoolPolicy(e.Peer, ToAgentFamily(e.Family), pool, e.Advert, lp).err :
                          e \in Range(desiredPeerAdverts)}
    IN  IF errs # {} THEN [err |-> errs, policies |-> {}]
        ELSE [err |-> {}, policies |-> PoliciesUpTo(Len(desiredPeerAdverts), pool, desiredPeerAdverts, lp)]

----------------------------------------------------------------------------
(* The store, errors and the two apply engines *)

\* store.ErrStoreUninitialized and ErrAbortReconcile
ErrStoreUninitialized == Err("storeUninitialized", NoKey)
ErrAbortReconcile == Err("abortReconcile", NoKey)

\* context.Canceled, as a router call made with a cancelled context returns it
ErrCanceled == Err("contextCanceled", NoKey)

\* errors.Is(err, ErrAbortReconcile) on a joined error (a set of errors)
IsAbort(err) == ErrAbortReconcile \in err

EmptyMap == [k \in {} |-> {}]

\* m[k] of a Go map: the zero value (nil) when the key is absent
Get(m, k) == IF k \in DOMAIN m THEN m[k] ELSE {}
\* m[k] = v and delete(m, k)
Put(m, k, v) == [x \in DOMAIN m \cup {k} |-> IF x = k THEN v ELSE m[x]]
Delete(m, k) == [x \in DOMAIN m \ {k} |-> m[x]]

\* poolStore.GetByKey: the keys of `keys` the store does not hold
StoreMissing(keys) == {k \in keys : k.Name \notin poolStore}
\* ... and the names of those it holds
StoreFound(keys) == {k.Name : k \in keys \ StoreMissing(keys)}
\* The Labels maps of the pool objects as they were declared
DeclaredLabels == [name \in PoolNames |-> PoolByName(name).Labels]

\* The pool object the store hands out for a name: the same object at every
\* read, with the Labels map it has by now
StoredPool(name) == [PoolByName(name) EXCEPT !.Labels = poolLabels[name]]

\* poolStore.List
StoreList == {StoredPool(name) : name \in poolStore}

\* ReconcileRoutePolicies for one resource key: the router is asked to move
\* from the current named policies to the desired ones.  Nothing is asked of
\* the router when they are equal; a failed apply returns the current set.
ReconcileRoutePolicies(desiredPolicies, currentPolicies, routerOK) ==
    IF desiredPolicies = currentPolicies
    THEN [updated |-> currentPolicies, failed |-> FALSE, op |-> FALSE]
    ELSE IF routerOK
    THEN [updated |-> desiredPolicies, failed |-> FALSE, op |-> TRUE]
    ELSE [updated |-> currentPolicies, failed |-> TRUE, op |-> TRUE]

\* ReconcileResourceAFPaths: per resource key of either map, apply the path
\* delta; a key advances only if its apply succeeds and is dropped when
\* nothing remains advertised for it.  Returns [paths, ops, err].
ReconcileResourceAFPaths(desired, current, fails) ==
    LET all == DOMAIN desired \cup DOMAIN current
        changed == {k \in all : Get(desired, k) # Get(current, k)}
        applied == changed \ fails
        value(k) == IF k \in applied THEN Get(desired, k) ELSE Get(current, k)
        kept == {k \in all : IF k \in applied THEN Get(desired, k) # {} ELSE k \in DOMAIN current}
    IN  [paths |-> [k \in kept |-> value(k)],
         ops   |-> {[kind |-> "path", key |-> k, ok |-> k \notin fails] : k \in changed},
         err   |-> {Err("path", k) : k \in changed \cap fails}]

----------------------------------------------------------------------------
(* The sub-passes of Reconcile *)

\* Faulty variant: the retained keys whose pool left the store are not marked.
getDesiredPodIPPoolRoutePolicies_NoMarks(marked, pools, desiredPeerAdverts, lp) ==
    LET errs == UNION {getPodIPPoolPolicies(p, desiredPeerAdverts, lp).err : p \in pools}
        listed == {KeyOf(p) : p \in pools}
    IN  IF errs # {} THEN [err |-> errs, desired |-> EmptyMap]
        ELSE [err |-> {},
              desired |-> [k \in listed |->
                              getPodIPPoolPolicies((CHOOSE p \in pools : KeyOf(p) = k), desiredPeerAdverts, lp).policies]]

\* The desired route policies once the pools are listed: the keys marked for
\* removal map to nil, every listed pool maps to its policies (an entry is
\* written for every listed pool).  Returns [err, desired].
getDesiredPodIPPoolRoutePolicies(marked, pools, desiredPeerAdverts, lp) ==
    LET errs == UNION {getPodIPPoolPolicies(p, desiredPeerAdverts, lp).err : p \in pools}
        listed == {KeyOf(p) : p \in pools}
    IN  IF errs # {} THEN [err |-> errs, desired |-> EmptyMap]
        ELSE [err |-> {},
              desired |-> [k \in marked \cup listed |->
                              IF k \in listed
                              THEN getPodIPPoolPolicies((CHOOSE p \in pools : KeyOf(p) = k), desiredPeerAdverts, lp).policies
                              ELSE {}]]

\* The desired paths once the pools are listed.  Returns [err, desired].
getDesiredPoolAFPaths(marked, pools, desiredFamilyAdverts, lp) ==
    LET errs == UNION {getDesiredAFPaths(p, desiredFamilyAdverts, lp).err : p \in pools}
        listed == {KeyOf(p) : p \in pools}
    IN  IF errs # {} THEN [err |-> errs, desired |-> EmptyMap]
        ELSE [err |-> {},
              desired |-> [k \in marked \cup listed |->
                              IF k \in listed
                              THEN getDesiredAFPaths((CHOOSE p \in pools : KeyOf(p) = k), desiredFamilyAdverts, lp).paths
                              ELSE {}]]

\* The error a failed store call hands back to Reconcile from the route-policy
\* sub-pass and from the path sub-pass.
RoutePolicyStoreError == {ErrStoreUninitialized}
PathStoreError == {ErrStoreUninitialized, ErrAbortReconcile}

\* reconcileRoutePolicies skips a key with nothing retained and nothing desired.
SkipKey(poolRoutePolicies, poolKey, desiredRPs) ==
    poolKey \notin DOMAIN poolRoutePolicies /\ desiredRPs = {}

\* Faulty variant: the desired policies are recorded whether or not the apply failed.
RetainRoutePolicies_RecordsDesired(poolRoutePolicies, poolKey, desiredRPs, res) ==
    IF desiredRPs = {}
    THEN Delete(poolRoutePolicies, poolKey)
    ELSE Put(poolRoutePolicies, poolKey, desiredRPs)

\* Faulty variant: the returned policies are dropped, the retained ones kept.
RetainRoutePolicies_NeverAdvances(poolRoutePolicies, poolKey, desiredRPs, res) ==
    IF ~res.failed /\ desiredRPs = {}
    THEN Delete(poolRoutePolicies, poolKey)
    ELSE Put(poolRoutePolicies, poolKey, Get(poolRoutePolicies, poolKey))

\* Faulty variant: a key whose apply failed is forgotten.
RetainRoutePolicies_ForgetsFailed(poolRoutePolicies, poolKey, desiredRPs, res) ==
    IF res.failed \/ desiredRPs = {}
    THEN Delete(poolRoutePolicies, poolKey)
    ELSE Put(poolRoutePolicies, poolKey, res.updated)

\* Faulty variant: a key with nothing left desired keeps its entry.
RetainRoutePolicies_KeepsKey(poolRoutePolicies, poolKey, desiredRPs, res) ==
    Put(poolRoutePolicies, poolKey, res.updated)

\* What reconcileRoutePolicies retains for a key after its apply.
RetainRoutePolicies(poolRoutePolicies, poolKey, desiredRPs, res) ==
    IF ~res.failed /\ desiredRPs = {}
    THEN Delete(poolRoutePolicies, poolKey)
    ELSE Put(poolRoutePolicies, poolKey, res.updated)

\* The keys the loop of reconcileRoutePolicies visits
VisitedKeys(poolRoutePolicies, desiredPoolsRPs) == DOMAIN desiredPoolsRPs

\* Faulty variant: the router is asked about every key the loop visits.
RoutePolicyOps_EveryKey(poolRoutePolicies, desiredPoolsRPs) ==
    VisitedKeys(poolRoutePolicies, desiredPoolsRPs)

\* The keys for which the loop asks something of the router
RoutePolicyOps(poolRoutePolicies, desiredPoolsRPs) ==
    {k \in VisitedKeys(poolRoutePolicies, desiredPoolsRPs) :
        /\ ~SkipKey(poolRoutePolicies, k, desiredPoolsRPs[k])
        /\ ReconcileRoutePolicies(desiredPoolsRPs[k], Get(poolRoutePolicies, k), TRUE).op}

\* The loop of reconcileRoutePolicies over the keys `todo`, the router
\* rejecting the applies of the keys in `fails`.
RECURSIVE ApplyRoutePolicies(_, _, _, _)
ApplyRoutePolicies(poolRoutePolicies, todo, desiredPoolsRPs, fails) ==
    IF todo = {} THEN poolRoutePolicies
    ELSE LET poolKey == CHOOSE k \in todo : TRUE
             desiredRPs == desiredPoolsRPs[poolKey]
             res == ReconcileRoutePolicies(desiredRPs, Get(poolRoutePolicies, poolKey),
                                           poolKey \notin fails)
             next == IF SkipKey(poolRoutePolicies, poolKey, desiredRPs)
                     THEN poolRoutePolicies
                     ELSE RetainRoutePolicies(poolRoutePolicies, poolKey, desiredRPs, res)
         IN  ApplyRoutePolicies(next, todo \ {poolKey}, desiredPoolsRPs, fails)

----------------------------------------------------------------------------
(* State *)

NoInstance == ""

\* PodIPPoolReconcilerMetadata as Init allocates it
EmptyMetadata == [PoolAFPaths |-> EmptyMap, PoolRoutePolicies |-> EmptyMap]

EmptyRouter == [rps |-> [k \in Keys |-> {}], paths |-> [k \in Keys |-> {}]]

\* What is known of an instance's last Reconcile under the present inputs:
\* nothing, that it ended without error, or that its only errors were the
\* router's rejections, with the deltas rejected.
NotSynced == [state |-> "none", failed |-> {}]
Unsynced == [i \in Instances |-> NotSynced]

IdleCall ==
    [pc |-> "idle", inst |-> NoInstance, before |-> EmptyMetadata, marked |-> {},
     desiredRPs |-> EmptyMap, desiredPaths |-> EmptyMap, ops |-> {}, err |-> {},
     changes |-> 0, seen |-> {}, ctxDone |-> FALSE, pre |-> {}]

getMetadata(i) == metadata[i]

\* Faulty variant: the metadata is stored under every instance's name.
setMetadata_EveryName(i, md) == [x \in DOMAIN metadata \cup {i} |-> md]

setMetadata(i, md) == [x \in DOMAIN metadata \cup {i} |-> IF x = i THEN md ELSE metadata[x]]

\* Faulty variant: the metadata of every instance is dropped.
DeleteMetadata_All(i) == [x \in {} |-> EmptyMetadata]

\* delete(r.metadata, i.Name)
DeleteMetadata(i) == [x \in DOMAIN metadata \ {i} |-> metadata[x]]

\* The zero PodIPPoolReconcilerMetadata, whose two maps are nil: what
\* r.metadata[name] yields for a name without entry.  A nil map reads as an
\* empty one and cannot be written.
ZeroMetadata == [PoolAFPaths |-> EmptyMap, PoolRoutePolicies |-> EmptyMap, nilMaps |-> TRUE]
IsZero(md) == "nilMaps" \in DOMAIN md

Init ==
    /\ metadata = [i \in {} |-> EmptyMetadata]
    /\ router = [i \in Instances |-> EmptyRouter]
    /\ storeInit \in BOOLEAN
    /\ poolStore \in (IF storeInit THEN SUBSET PoolNames ELSE {{}})
    /\ node \in SUBSET PoolNames
    /\ adverts \in AdvertConfigs
    /\ poolLabels = DeclaredLabels
    /\ synced = Unsynced
    /\ cur = IdleCall

----------------------------------------------------------------------------
(* The environment: the pool store, the local node, the configuration *)


\* The listed pools for which a sub-pass derives the label set: every one, if
\* some advertisement gets as far as the selector match (for a route policy,
\* its peer has an address that parses).
DerivesForRoutePolicies ==
    IF storeInit /\ \E n \in DOMAIN adverts :
                      adverts[n].Advert.Selector.Valid /\ ParseAddrOK(adverts[n].Peer.Address)
    THEN poolStore ELSE {}
DerivesForPaths ==
    IF storeInit /\ \E n \in DOMAIN adverts : adverts[n].Advert.Selector.Valid
    THEN poolStore ELSE {}

\* The Labels maps of the pool objects after podIPPoolLabelSet was called
\* with the objects of these names
LabelsAfter(names) ==
    [name \in PoolNames |->
        IF name \in names THEN PoolAfterLabelSet(StoredPool(name)).Labels ELSE poolLabels[name]]

\* A store change while a call is in flight is noted in the call.
Disturbed == IF cur.pc = "idle" THEN cur ELSE [cur EXCEPT !.changes = @ + 1]

\* The store changes between calls or between two steps of a call, the first
\* store read of a call seeing the store as the call found it.
StoreMayChange ==
    \/ cur.pc = "idle"
    \/ cur.pc \in {"rpList", "pathKeys", "pathList"} /\ cur.changes < MaxStoreChanges

\* While the store is uninitialized its contents cannot be read; they are
\* whatever the sync brings (poolStore is kept empty until then).
StoreUpsert(name) ==
    /\ StoreMayChange
    /\ storeInit
    /\ name \notin poolStore
    /\ poolStore' = poolStore \cup {name}
    /\ cur' = Disturbed
    /\ synced' = Unsynced
    /\ UNCHANGED <<metadata, router, storeInit, node, adverts>>
    /\ poolLabels' = [poolLabels EXCEPT ![name] = DeclaredLabels[name]]

StoreDelete(name) ==
    /\ StoreMayChange
    /\ storeInit
    /\ name \in poolStore
    /\ poolStore' = poolStore \ {name}
    /\ cur' = Disturbed
    /\ synced' = Unsynced
    /\ UNCHANGED <<metadata, router, storeInit, node, adverts, poolLabels>>

\* The store's backing cache completes its sync.
StoreSync(names) ==
    /\ StoreMayChange
    /\ ~storeInit
    /\ storeInit' = TRUE
    /\ poolStore' = names
    /\ cur' = Disturbed
    /\ synced' = Unsynced
    /\ UNCHANGED <<metadata, router, node, adverts>>
    /\ poolLabels' = DeclaredLabels

\* The store starts a resync and reports uninitialized again.
StoreResync ==
    /\ StoreMayChange
    /\ storeInit
    /\ storeInit' = FALSE
    /\ poolStore' = {}
    /\ cur' = Disturbed
    /\ synced' = Unsynced
    /\ UNCHANGED <<metadata, router, node, adverts, poolLabels>>

NodeUpdate(allocated) ==
    /\ cur.pc = "idle"
    /\ allocated # node
    /\ node' = allocated
    /\ synced' = Unsynced
    /\ UNCHANGED <<metadata, router, poolStore, storeInit, adverts, cur, poolLabels>>

ConfigUpdate(config) ==
    /\ cur.pc = "idle"
    /\ config # adverts
    /\ adverts' = config
    /\ synced' = Unsynced
    /\ UNCHANGED <<metadata, router, poolStore, storeInit, node, cur, poolLabels>>

----------------------------------------------------------------------------
(* The reconciler's operations *)

\* The applies the router may reject among those asked of it: any of them,
\* and every one once the context of the call is cancelled.
RouterRejects(asked) == IF cur.ctxDone THEN {asked} ELSE SUBSET asked

\* The error the router's rejections carry beyond the per-key failures
RouterError(fails) == IF cur.ctxDone /\ fails # {} THEN {ErrCanceled} ELSE {}

\* Init for a newly created instance, whose router holds nothing yet.
InitInstance(i) ==
    /\ cur.pc = "idle"
    /\ i \notin DOMAIN metadata
    /\ metadata' = setMetadata(i, EmptyMetadata)
    /\ router' = [router EXCEPT ![i] = EmptyRouter]
    /\ synced' = [synced EXCEPT ![i] = NotSynced]
    /\ UNCHANGED <<poolStore, storeInit, node, adverts, cur, poolLabels>>

\* Cleanup when the instance is torn down.
Cleanup(i) ==
    /\ cur.pc = "idle"
    /\ i \in DOMAIN metadata
    /\ metadata' = DeleteMetadata(i)
    /\ synced' = [synced EXCEPT ![i] = NotSynced]
    /\ UNCHANGED <<router, poolStore, storeInit, node, adverts, cur, poolLabels>>

\* The call returns err to its caller.
Returned(c, e) == [c EXCEPT !.pc = "returned", !.err = e]
\* What the finished call leaves for the next one: whether it ran to the end
\* without error on inputs and a store that have not changed since it began.
FailedDeltas(c) ==
    {[kind |-> o.kind, key |-> o.key,
      from |-> IF o.kind = "routePolicy" THEN Get(c.before.PoolRoutePolicies, o.key)
               ELSE Get(c.before.PoolAFPaths, o.key),
      to   |-> IF o.kind = "routePolicy" THEN Get(c.desiredRPs, o.key)
               ELSE Get(c.desiredPaths, o.key)] : o \in {x \in c.ops : ~x.ok}}
SyncedAfter(c, e) ==
    [synced EXCEPT ![c.inst] =
        IF c.changes > 0 THEN NotSynced
        ELSE IF e = {} THEN [state |-> "ok", failed |-> {}]
        ELSE IF \A x \in e : x.kind \in {"routePolicy", "path"}
        THEN [state |-> "applyFailed", failed |-> FailedDeltas(c)]
        ELSE NotSynced]

\* Faulty variant: the paths are reconciled before the route policies.
SubPasses_PathsFirst == <<"pathKeys", "rpKeys">>

\* The sub-passes of Reconcile in the order it runs them, each named by its
\* first step: reconcileRoutePolicies, then reconcilePaths.
SubPasses == <<"rpKeys", "pathKeys">>

\* Where a call stands after the sub-pass `first` has ended without error
AfterSubPass(first) ==
    LET n == CHOOSE m \in 1..Len(SubPasses) : SubPasses[m] = first
    IN  IF n < Len(SubPasses) THEN SubPasses[n + 1] ELSE "returned"

\* Faulty variant: the error is dropped and the call goes on.
EarlyReturn_Never(pre) == FALSE

\* Reconcile returns the error of ValidateParams or of
\* GetConfiguredAdvertisements as soon as it has it.
EarlyReturn(pre) == pre # {}

\* Faulty variant: the error of the route-policy sub-pass is set aside and
\* the call goes on.
ReturnsRoutePolicyError_Never(err) == FALSE

\* Reconcile returns the error of reconcileRoutePolicies as soon as it has it.
ReturnsRoutePolicyError(err) == err # {}

\* Reconcile up to the sub-passes: ValidateParams, populateLocalPools and
\* GetConfiguredAdvertisements, `pre` being the error of the first or of the
\* last, if any.
ReconcileBegin(i, pre) ==
    /\ cur.pc = "idle"
    /\ i \in DOMAIN metadata
    /\ LET c == [IdleCall EXCEPT !.inst = i, !.before = getMetadata(i), !.pre = pre]
       IN  IF EarlyReturn(pre)
           THEN /\ cur' = Returned(c, pre)
           ELSE /\ cur' = [c EXCEPT !.pc = SubPasses[1]]
    /\ UNCHANGED <<metadata, router, poolStore, storeInit, node, adverts, synced, poolLabels>>

\* getDesiredPodIPPoolRoutePolicies, the GetByKey of every retained key
RoutePolicyCheckDeleted ==
    /\ cur.pc = "rpKeys"
    /\ LET retained == DOMAIN getMetadata(cur.inst).PoolRoutePolicies
       IN  IF retained # {} /\ ~storeInit
           THEN /\ cur' = Returned(cur, RoutePolicyStoreError)
           ELSE /\ cur' = [cur EXCEPT !.pc = "rpList", !.marked = StoreMissing(retained),
                                     !.seen = @ \cup StoreFound(retained)]
    /\ UNCHANGED <<metadata, router, poolStore, storeInit, node, adverts, synced, poolLabels>>

\* reconcileRoutePolicies from the List on: the desired policies, the apply
\* loop and setMetadata
RoutePolicyApply ==
    /\ cur.pc = "rpList"
    /\ LET i == cur.inst
           md == getMetadata(i)
           d == getDesiredPodIPPoolRoutePolicies(cur.marked, StoreList, adverts, populateLocalPools(node))
           asked == RoutePolicyOps(md.PoolRoutePolicies, d.desired)
       IN  IF ~storeInit
           THEN /\ cur' = Returned(cur, RoutePolicyStoreError)
                /\ UNCHANGED <<metadata, router>>
           ELSE IF d.err # {}
           THEN /\ cur' = Returned(cur, d.err)
                /\ UNCHANGED <<metadata, router>>
           ELSE \E fails \in RouterRejects(asked) :
                LET rps == ApplyRoutePolicies(md.PoolRoutePolicies,
                               VisitedKeys(md.PoolRoutePolicies, d.desired), d.desired, fails)
                    err == {Err("routePolicy", k) : k \in fails} \cup RouterError(fails)
                    c == [cur EXCEPT !.desiredRPs = d.desired, !.marked = {},
                                     !.seen = @ \cup poolStore,
                                     !.ops = @ \cup {[kind |-> "routePolicy", key |-> k, ok |-> k \notin fails] : k \in asked}]
                IN  /\ metadata' = setMetadata(i, [md EXCEPT !.PoolRoutePolicies = rps])
                    /\ router' = [router EXCEPT ![i].rps =
                                     [k \in Keys |-> IF k \in asked \ fails THEN d.desired[k] ELSE @[k]]]
                    /\ IF ReturnsRoutePolicyError(err)
                       THEN cur' = Returned(c, err)
                       ELSE cur' = [c EXCEPT !.pc = AfterSubPass("rpKeys"), !.err = err]
    /\ UNCHANGED <<poolStore, storeInit, node, adverts, synced>>
    /\ poolLabels' = LabelsAfter(DerivesForRoutePolicies)

\* getDesiredPoolAFPaths, the GetByKey of every retained key
PathCheckDeleted ==
    /\ cur.pc = "pathKeys"
    /\ LET retained == DOMAIN getMetadata(cur.inst).PoolAFPaths
       IN  IF retained # {} /\ ~storeInit
           THEN /\ cur' = Returned(cur, PathStoreError)
           ELSE /\ cur' = [cur EXCEPT !.pc = "pathList", !.marked = StoreMissing(retained),
                                     !.seen = @ \cup StoreFound(retained)]
    /\ UNCHANGED <<metadata, router, poolStore, storeInit, node, adverts, synced, poolLabels>>

\* reconcilePaths from the List on: the desired paths, ReconcileResourceAFPaths
\* and setMetadata
PathApply ==
    /\ cur.pc = "pathList"
    /\ LET i == cur.inst
           md == getMetadata(i)
           d == getDesiredPoolAFPaths(cur.marked, StoreList, adverts, populateLocalPools(node))
       IN  IF ~storeInit
           THEN /\ cur' = Returned(cur, PathStoreError)
                /\ UNCHANGED <<metadata, router>>
           ELSE IF d.err # {}
           THEN /\ cur' = Returned(cur, d.err)
                /\ UNCHANGED <<metadata, router>>
           ELSE \E fails \in RouterRejects({k \in DOMAIN d.desired \cup DOMAIN md.PoolAFPaths :
                                              Get(d.desired, k) # Get(md.PoolAFPaths, k)}) :
                LET res == ReconcileResourceAFPaths(d.desired, md.PoolAFPaths, fails)
                    c == [cur EXCEPT !.desiredPaths = d.desired, !.marked = {},
                                     !.seen = @ \cup poolStore,
                                     !.ops = @ \cup res.ops]
                IN  /\ metadata' = setMetadata(i, [md EXCEPT !.PoolAFPaths = res.paths])
                    /\ router' = [router EXCEPT ![i].paths =
                                     [k \in Keys |->
                                        IF [kind |-> "path", key |-> k, ok |-> TRUE] \in res.ops
                                        THEN Get(d.desired, k) ELSE @[k]]]
                    /\ LET err == res.err \cup RouterError(fails)
                       IN  IF err # {} \/ AfterSubPass("pathKeys") = "returned"
                           THEN cur' = Returned(c, err)
                           ELSE cur' = [c EXCEPT !.pc = AfterSubPass("pathKeys")]
    /\ UNCHANGED <<poolStore, storeInit, node, adverts, synced>>
    /\ poolLabels' = LabelsAfter(DerivesForPaths)

\* The caller takes the result; the reconciler is idle again.
ReconcileEnd ==
    /\ cur.pc = "returned"
    /\ cur' = IdleCall
    /\ synced' = SyncedAfter(cur, cur.err)
    /\ UNCHANGED <<metadata, router, poolStore, storeInit, node, adverts, poolLabels>>

\* Errors of ValidateParams and of GetConfiguredAdvertisements
PreErrors == { {}, {Err("params", NoKey)}, {Err("advertisements", NoKey)} }

Next ==
    \/ \E name \in PoolNames : StoreUpsert(name)
    \/ \E name \in PoolNames : StoreDelete(name)
    \/ \E names \in SUBSET PoolNames : StoreSync(names)
    \/ StoreResync
    \/ \E allocated \in SUBSET PoolNames : NodeUpdate(allocated)
    \/ \E config \in AdvertConfigs : ConfigUpdate(config)
    \/ \E i \in Managed : InitInstance(i)
    \/ \E i \in Managed : Cleanup(i)
    \/ \E i \in Managed, pre \in PreErrors : ReconcileBegin(i, pre)
    \/ RoutePolicyCheckDeleted
    \/ RoutePolicyApply
    \/ PathCheckDeleted
    \/ PathApply
    \/ ReconcileEnd

Spec == Init /\ [][Next]_vars

----------------------------------------------------------------------------
(* Reconcile over configurations of several peers and advertisements, the    *)
(* store initialised and unchanged, the node's allocations changing between  *)
(* calls.                                                                    *)

DerivationInit ==
    /\ metadata = [i \in {} |-> EmptyMetadata]
    /\ router = [i \in Instances |-> EmptyRouter]
    /\ storeInit = TRUE
    /\ poolStore \in SUBSET PoolNames
    /\ node \in SUBSET AllocationNames
    /\ adverts \in PeerAdvertisements
    /\ poolLabels = DeclaredLabels
    /\ synced = Unsynced
    /\ cur = IdleCall

DerivationNext ==
    \/ \E allocated \in SUBSET AllocationNames : NodeUpdate(allocated)
    \/ \E i \in Managed : InitInstance(i)
    \/ \E i \in Managed : ReconcileBegin(i, {})
    \/ RoutePolicyCheckDeleted
    \/ RoutePolicyApply
    \/ PathCheckDeleted
    \/ PathApply
    \/ ReconcileEnd

DerivationSpec == DerivationInit /\ [][DerivationNext]_vars

----------------------------------------------------------------------------
(* The operations called in any order and with any instance, nil included:   *)
(* the caller is not held to Init before Reconcile or to one Cleanup.  Each  *)
(* Init and Cleanup call is noted in cur until the caller has its result.    *)

LifecycleInit ==
    /\ metadata = [i \in {} |-> EmptyMetadata]
    /\ router = [i \in Instances |-> EmptyRouter]
    /\ storeInit \in BOOLEAN
    /\ poolStore \in (IF storeInit THEN SUBSET PoolNames ELSE {{}})
    /\ node \in SUBSET PoolNames
    /\ adverts \in AdvertConfigs
    /\ poolLabels = DeclaredLabels
    /\ synced = Unsynced
    /\ cur = IdleCall

\* Faulty variant: a nil instance is accepted silently.
InitOutcome_NilAccepted(i) ==
    IF i = NoInstance
    THEN [err |-> {}, metadata |-> metadata]
    ELSE [err |-> {}, metadata |-> setMetadata(i, EmptyMetadata)]

\* Faulty variant: an instance that has an entry keeps it.
InitOutcome_KeepsEntry(i) ==
    IF i = NoInstance
    THEN [err |-> {Err("nilInstance", NoKey)}, metadata |-> metadata]
    ELSE IF i \in DOMAIN metadata
    THEN [err |-> {}, metadata |-> metadata]
    ELSE [err |-> {}, metadata |-> setMetadata(i, EmptyMetadata)]

\* Init: the error it returns and the metadata map it leaves
InitOutcome(i) ==
    IF i = NoInstance
    THEN [err |-> {Err("nilInstance", NoKey)}, metadata |-> metadata]
    ELSE [err |-> {}, metadata |-> setMetadata(i, EmptyMetadata)]

\* Init(i), i = NoInstance for a nil instance
InitCall(i) ==
    /\ cur.pc = "idle"
    /\ cur' = [IdleCall EXCEPT !.pc = "initReturned", !.inst = i, !.err = InitOutcome(i).err]
    /\ metadata' = InitOutcome(i).metadata
    /\ synced' = [j \in Instances |-> IF j = i THEN NotSynced ELSE synced[j]]
    /\ UNCHANGED <<router, poolStore, storeInit, node, adverts, poolLabels>>

\* Cleanup(i), i = NoInstance for a nil instance
CleanupCall(i) ==
    /\ cur.pc = "idle"
    /\ cur' = [IdleCall EXCEPT !.pc = "cleanupReturned", !.inst = i]
    /\ IF i = NoInstance
       THEN UNCHANGED <<metadata, synced>>
       ELSE /\ metadata' = DeleteMetadata(i)
            /\ synced' = [synced EXCEPT ![i] = NotSynced]
    /\ UNCHANGED <<router, poolStore, storeInit, node, adverts, poolLabels>>

\* Reconcile for an instance whose entry Init made
ReconcileInitialised(i) ==
    /\ IF i \in DOMAIN metadata THEN ~IsZero(metadata[i]) ELSE FALSE
    /\ ReconcileBegin(i, {})

\* Reconcile for an instance without entry, or with the entry such a call
\* left: getMetadata yields the zero metadata.  The route-policy loop writes
\* the retained map for the first key it asks the router about, and the map
\* is nil: the call panics there.  With nothing to ask, setMetadata stores
\* the zero metadata under the instance's name and the path sub-pass runs.
ReconcileWithoutInit(i) ==
    /\ cur.pc = "idle"
    /\ IF i \in DOMAIN metadata THEN IsZero(metadata[i]) ELSE TRUE
    /\ LET md == IF i \in DOMAIN metadata THEN metadata[i] ELSE ZeroMetadata
           c == [IdleCall EXCEPT !.inst = i, !.before = md]
           lp == populateLocalPools(node)
           rp == getDesiredPodIPPoolRoutePolicies({}, StoreList, adverts, lp)
           asked == RoutePolicyOps(md.PoolRoutePolicies, rp.desired)
           pd == getDesiredPoolAFPaths(StoreMissing(DOMAIN md.PoolAFPaths), StoreList, adverts, lp)
       IN  IF ~storeInit
           THEN /\ cur' = Returned(c, RoutePolicyStoreError)
                /\ UNCHANGED <<metadata, router>>
           ELSE IF rp.err # {}
           THEN /\ cur' = Returned(c, rp.err)
                /\ UNCHANGED <<metadata, router>>
           ELSE IF asked # {}
           THEN \E k \in asked, ok \in BOOLEAN :
                    /\ router' = [router EXCEPT ![i].rps[k] = IF ok THEN rp.desired[k] ELSE @]
                    /\ cur' = [c EXCEPT !.pc = "panicked", !.desiredRPs = rp.desired,
                                        !.ops = {[kind |-> "routePolicy", key |-> k, ok |-> ok]}]
                    /\ UNCHANGED metadata
           ELSE IF pd.err # {}
           THEN /\ metadata' = setMetadata(i, md)
                /\ cur' = Returned([c EXCEPT !.desiredRPs = rp.desired], pd.err)
                /\ UNCHANGED router
           ELSE \E fails \in SUBSET {k \in DOMAIN pd.desired \cup DOMAIN md.PoolAFPaths :
                                        Get(pd.desired, k) # Get(md.PoolAFPaths, k)} :
                LET res == ReconcileResourceAFPaths(pd.desired, md.PoolAFPaths, fails)
                IN  /\ metadata' = setMetadata(i, [md EXCEPT !.PoolAFPaths = res.paths])
                    /\ router' = [router EXCEPT ![i].paths =
                                     [k \in Keys |->
                                        IF [kind |-> "path", key |-> k, ok |-> TRUE] \in res.ops
                                        THEN Get(pd.desired, k) ELSE @[k]]]
                    /\ cur' = Returned([c EXCEPT !.desiredRPs = rp.desired,
                                                 !.desiredPaths = pd.desired, !.ops = res.ops],
                                       res.err)
    /\ UNCHANGED <<poolStore, storeInit, node, adverts, synced>>
    /\ poolLabels' = LabelsAfter(DerivesForRoutePolicies \cup DerivesForPaths)

\* The caller has the result of its Init or Cleanup call.
LifecycleReturn ==
    /\ cur.pc \in {"initReturned", "cleanupReturned"}
    /\ cur' = IdleCall
    /\ UNCHANGED <<metadata, router, poolStore, storeInit, node, adverts, synced, poolLabels>>

LifecycleNext ==
    \/ \E i \in Instances \cup {NoInstance} : InitCall(i)
    \/ \E i \in Instances \cup {NoInstance} : CleanupCall(i)
    \/ LifecycleReturn
    \/ \E i \in Instances : ReconcileInitialised(i)
    \/ \E i \in Instances : ReconcileWithoutInit(i)
    \/ RoutePolicyCheckDeleted
    \/ RoutePolicyApply
    \/ PathCheckDeleted
    \/ PathApply
    \/ ReconcileEnd

LifecycleSpec == LifecycleInit /\ [][LifecycleNext]_vars

----------------------------------------------------------------------------
(* Reconcile under a context that its caller may cancel: before the first    *)
(* store read of the call or between any two of its steps.  The store calls  *)
(* take no context; the router is handed it with every apply.                *)

CancelInit ==
    /\ metadata = [i \in {} |-> EmptyMetadata]
    /\ router = [i \in Instances |-> EmptyRouter]
    /\ storeInit = TRUE
    /\ poolStore \in SUBSET PoolNames
    /\ node \in SUBSET PoolNames
    /\ adverts \in AdvertConfigs
    /\ poolLabels = DeclaredLabels
    /\ synced = Unsynced
    /\ cur = IdleCall

\* The caller cancels the context of the call in flight.
Cancel ==
    /\ cur.pc \in {"rpKeys", "rpList", "pathKeys", "pathList"}
    /\ ~cur.ctxDone
    /\ cur' = [cur EXCEPT !.ctxDone = TRUE]
    /\ UNCHANGED <<metadata, router, poolStore, storeInit, node, adverts, synced, poolLabels>>

CancelNext ==
    \/ \E allocated \in SUBSET PoolNames : NodeUpdate(allocated)
    \/ \E i \in Managed : InitInstance(i)
    \/ \E i \in Managed : ReconcileBegin(i, {})
    \/ Cancel
    \/ RoutePolicyCheckDeleted
    \/ RoutePolicyApply
    \/ PathCheckDeleted
    \/ PathApply
    \/ ReconcileEnd

CancelSpec == CancelInit /\ [][CancelNext]_vars

----------------------------------------------------------------------------
(* Reconcile calls of different instances running at the same time on one    *)
(* reconciler.  Here cur maps each instance to its own call.  r.metadata is  *)
(* a plain map without lock; a call reaches it six times, through            *)
(* getMetadata (lines 222, 190, 142, 125) and setMetadata (lines 216, 135),  *)
(* and an access takes time: a call enters it and leaves it.                 *)

MetadataAccesses == <<"read", "read", "write", "read", "read", "write">>

IdleThread ==
    [pc |-> "idle", at |-> 0, inside |-> FALSE, raced |-> FALSE,
     local |-> EmptyMetadata, err |-> {}]

ConcurrentInit ==
    /\ metadata = [i \in {} |-> EmptyMetadata]
    /\ router = [i \in Instances |-> EmptyRouter]
    /\ storeInit = TRUE
    /\ poolStore \in SUBSET PoolNames
    /\ node \in SUBSET PoolNames
    /\ adverts \in AdvertConfigs
    /\ poolLabels = DeclaredLabels
    /\ synced = Unsynced
    /\ cur = [i \in Instances |-> IdleThread]

\* Init of an instance, before any call runs
InitBeforeCalls(i) ==
    /\ \A j \in Instances : cur[j].pc = "idle"
    /\ i \notin DOMAIN metadata
    /\ metadata' = setMetadata(i, EmptyMetadata)
    /\ UNCHANGED <<router, poolStore, storeInit, node, adverts, synced, cur, poolLabels>>

ConcurrentBegin(i) ==
    /\ cur[i].pc = "idle"
    /\ i \in DOMAIN metadata
    /\ cur' = [cur EXCEPT ![i] = [IdleThread EXCEPT !.pc = "running"]]
    /\ UNCHANGED <<metadata, router, poolStore, storeInit, node, adverts, synced, poolLabels>>

\* The accesses of other calls that are under way, and whether one of kind
\* `kind` conflicts with them: two accesses conflict when one is a write.
OthersInside(i) == {j \in Instances \ {i} : cur[j].pc = "running" /\ cur[j].inside}
Conflicts(i, kind) ==
    {j \in OthersInside(i) : kind = "write" \/ MetadataAccesses[cur[j].at] = "write"}

\* A call enters its next access of r.metadata.  Nothing orders it with the
\* accesses of the other calls; when it conflicts with one under way, the
\* runtime either stops the program (concurrent map access) or does not
\* notice.
EnterMetadata(i) ==
    /\ cur[i].pc = "running" /\ ~cur[i].inside /\ cur[i].at < Len(MetadataAccesses)
    /\ LET n == cur[i].at + 1
           hit == Conflicts(i, MetadataAccesses[n])
       IN  \/ cur' = [j \in Instances |->
                        IF j = i THEN [cur[j] EXCEPT !.at = n, !.inside = TRUE, !.raced = hit # {}]
                        ELSE IF j \in hit THEN [cur[j] EXCEPT !.raced = TRUE]
                        ELSE cur[j]]
           \/ /\ hit # {}
              /\ cur' = [j \in Instances |-> [cur[j] EXCEPT !.pc = "fatal"]]
    /\ UNCHANGED <<metadata, router, poolStore, storeInit, node, adverts, synced, poolLabels>>

\* What r.metadata holds after a write of `md` under the instance's name: the
\* entry written, or, when the write ran into another access, possibly the
\* map as it was.
Written(i, md, raced) ==
    {setMetadata(i, md)} \cup (IF raced THEN {metadata} ELSE {})

\* A call leaves the access it is in and runs on to its next one: the
\* derivation and the applies of each sub-pass lie between the accesses.
LeaveMetadata(i) ==
    /\ cur[i].pc = "running" /\ cur[i].inside
    /\ LET t == cur[i]
           lp == populateLocalPools(node)
           md == metadata[i]
           on == [t EXCEPT !.inside = FALSE, !.raced = FALSE]
           out(e) == [on EXCEPT !.pc = "returned", !.err = e]
           rp == getDesiredPodIPPoolRoutePolicies(
                     StoreMissing(DOMAIN md.PoolRoutePolicies), StoreList, adverts, lp)
           pd == getDesiredPoolAFPaths(
                     StoreMissing(DOMAIN md.PoolAFPaths), StoreList, adverts, lp)
           asked == RoutePolicyOps(md.PoolRoutePolicies, rp.desired)
       IN  CASE t.at \in {1, 4} ->
                  \* getMetadata of the derivation, then the derivation
                  LET e == IF t.at = 1 THEN rp.err ELSE pd.err
                  IN  /\ cur' = [cur EXCEPT ![i] = IF e # {} THEN out(e) ELSE on]
                      /\ UNCHANGED <<metadata, router>>
             [] t.at = 2 ->
                  \* getMetadata of reconcileRoutePolicies, then its loop, which
                  \* writes the instance's own retained map in place
                  \E fails \in SUBSET asked :
                      LET rps == ApplyRoutePolicies(md.PoolRoutePolicies,
                                     VisitedKeys(md.PoolRoutePolicies, rp.desired), rp.desired, fails)
                          upd == [md EXCEPT !.PoolRoutePolicies = rps]
                      IN  /\ metadata' = setMetadata(i, upd)
                          /\ router' = [router EXCEPT ![i].rps =
                                   [k \in Keys |-> IF k \in asked \ fails THEN rp.desired[k] ELSE @[k]]]
                          /\ cur' = [cur EXCEPT ![i] =
                                   [on EXCEPT !.local = upd,
                                              !.err = {Err("routePolicy", k) : k \in fails}]]
             [] t.at = 5 ->
                  \* getMetadata of reconcilePaths, then ReconcileResourceAFPaths
                  \E fails \in SUBSET {k \in DOMAIN pd.desired \cup DOMAIN md.PoolAFPaths :
                                           Get(pd.desired, k) # Get(md.PoolAFPaths, k)} :
                      LET res == ReconcileResourceAFPaths(pd.desired, md.PoolAFPaths, fails)
                      IN  /\ router' = [router EXCEPT ![i].paths =
                                   [k \in Keys |->
                                      IF [kind |-> "path", key |-> k, ok |-> TRUE] \in res.ops
                                      THEN Get(pd.desired, k) ELSE @[k]]]
                          /\ cur' = [cur EXCEPT ![i] =
                                   [on EXCEPT !.local = [md EXCEPT !.PoolAFPaths = res.paths],
                                              !.err = res.err]]
                          /\ UNCHANGED metadata
             [] OTHER ->
                  \* setMetadata; each sub-pass returns after it
                  /\ metadata' \in Written(i, t.local, t.raced)
                  /\ cur' = [cur EXCEPT ![i] = IF t.at = 6 \/ t.err # {} THEN out(t.err) ELSE on]
                  /\ UNCHANGED router
    /\ UNCHANGED <<poolStore, storeInit, node, adverts, synced>>
    /\ poolLabels' = LabelsAfter(DerivesForRoutePolicies \cup DerivesForPaths)

\* The caller of the instance's call takes the result.
ConcurrentEnd(i) ==
    /\ cur[i].pc = "returned"
    /\ cur' = [cur EXCEPT ![i] = IdleThread]
    /\ UNCHANGED <<metadata, router, poolStore, storeInit, node, adverts, synced, poolLabels>>

ConcurrentNext ==
    \/ \E i \in Instances : InitBeforeCalls(i)
    \/ \E i \in Instances : ConcurrentBegin(i)
    \/ \E i \in Instances : EnterMetadata(i)
    \/ \E i \in Instances : LeaveMetadata(i)
    \/ \E i \in Instances : ConcurrentEnd(i)

ConcurrentSpec == ConcurrentInit /\ [][ConcurrentNext]_vars

----------------------------------------------------------------------------
(* Properties *)

\* The call that has just returned, and whether it returned no error
HasReturned == cur.pc = "returned"
ReturnedOK == HasReturned /\ cur.err = {}

FailedOps == {o \in cur.ops : ~o.ok}
AppliedOps == {o \in cur.ops : o.ok}

SecondCall == HasReturned /\ synced[cur.inst].state = "ok"
SecondCallAfterAny == HasReturned /\ synced[cur.inst].state \in {"ok", "applyFailed"}

\* C2 as stated: the second of two calls in a row with identical inputs and
\* an unchanged store issues no router operation and leaves the metadata as
\* it was.
C2_SecondCallIssuesNothing ==
    SecondCallAfterAny => cur.ops = {} /\ metadata[cur.inst] = cur.before

\* C2 amended: ... provided the first call returned no error.
C2_SecondCallAfterSuccessIssuesNothing ==
    SecondCall => cur.ops = {} /\ metadata[cur.inst] = cur.before

\* C2 witness: a second call that ran both sub-passes to the end on an
\* instance that retains policies and paths.
C2_Witness ==
    /\ SecondCall /\ cur.err = {}
    /\ DOMAIN cur.desiredPaths # {}
    /\ DOMAIN metadata[cur.inst].PoolRoutePolicies # {}
    /\ DOMAIN metadata[cur.inst].PoolAFPaths # {}

\* D restricted to the keys whose desired value is neither nil nor empty
NonEmptyPart(desired) == [k \in {x \in DOMAIN desired : desired[x] # {}} |-> desired[k]]

\* C3 as stated: after a Reconcile that returned no error the retained
\* mappings equal the desired mappings of that call restricted to their
\* non-empty entries.
C3_ConvergesToDesired ==
    ReturnedOK =>
        /\ metadata[cur.inst].PoolRoutePolicies = NonEmptyPart(cur.desiredRPs)
        /\ metadata[cur.inst].PoolAFPaths = NonEmptyPart(cur.desiredPaths)

\* The errors of the call are router rejections only (none at all included).
OnlyApplyErrors == \A x \in cur.err : x.kind \in {"routePolicy", "path"}

Op(kind, k, ok) == [kind |-> kind, key |-> k, ok |-> ok]

\* The key was retained when the call began and its pool was absent from the
\* initialised store at every store read of the call.
RetainedBefore(k) == k \in DOMAIN cur.before.PoolRoutePolicies \cup DOMAIN cur.before.PoolAFPaths
PoolGone(k) ==
    /\ k.Name \notin cur.seen /\ k.Name \notin poolStore
    /\ storeInit /\ ErrStoreUninitialized \notin cur.err

\* Everything retained for the key was withdrawn and the key is in neither
\* retained mapping.
Withdrawn(k) ==
    /\ k \notin DOMAIN metadata[cur.inst].PoolRoutePolicies
    /\ k \notin DOMAIN metadata[cur.inst].PoolAFPaths
    /\ router[cur.inst].rps[k] = {} /\ router[cur.inst].paths[k] = {}
    /\ Get(cur.before.PoolRoutePolicies, k) # {} => Op("routePolicy", k, TRUE) \in cur.ops
    /\ Get(cur.before.PoolAFPaths, k) # {} => Op("path", k, TRUE) \in cur.ops

\* C4 as stated: the Reconcile that follows the removal of a retained pool
\* from the store withdraws everything of that key and removes the key from
\* both retained mappings (here for calls with valid parameters and
\* advertisements, whose only errors can be router rejections).
C4_DeletedPoolIsWithdrawn ==
    HasReturned /\ OnlyApplyErrors =>
        \A k \in Keys : RetainedBefore(k) /\ PoolGone(k) => Withdrawn(k)

\* C4 amended: ... the next Reconcile that returns no error withdraws
\* everything of that key and removes the key, leaving no empty entry.
C4_DeletedPoolIsWithdrawnOnSuccess ==
    ReturnedOK =>
        \A k \in Keys : RetainedBefore(k) /\ PoolGone(k) => Withdrawn(k)

\* C4 witness: a call returned without error after withdrawing the policies
\* and the paths of a pool that had left the store.
C4_Witness ==
    /\ ReturnedOK
    /\ \E k \in Keys :
          /\ PoolGone(k)
          /\ Get(cur.before.PoolRoutePolicies, k) # {}
          /\ Get(cur.before.PoolAFPaths, k) # {}
          /\ Withdrawn(k)

\* C5 as stated: when the router rejects the apply of one key and accepts
\* those of others, the accepted keys retain their desired policies, the
\* rejected key retains exactly what it did before the call (absent if it
\* was absent) and its failure is in the returned error.
C5_FailedKeyIsUntouched ==
    HasReturned /\ FailedOps # {} /\ AppliedOps # {} =>
        \A k \in Keys :
            /\ Op("routePolicy", k, FALSE) \in cur.ops =>
                  /\ (k \in DOMAIN metadata[cur.inst].PoolRoutePolicies
                         <=> k \in DOMAIN cur.before.PoolRoutePolicies)
                  /\ Get(metadata[cur.inst].PoolRoutePolicies, k) = Get(cur.before.PoolRoutePolicies, k)
                  /\ Err("routePolicy", k) \in cur.err
            /\ Op("routePolicy", k, TRUE) \in cur.ops =>
                  /\ Get(metadata[cur.inst].PoolRoutePolicies, k) = cur.desiredRPs[k]
                  /\ (k \in DOMAIN metadata[cur.inst].PoolRoutePolicies <=> cur.desiredRPs[k] # {})

\* The desired paths the inputs of the returned call give, the store not
\* having changed during the call.
DesiredPathsOfInputs ==
    getDesiredPoolAFPaths(StoreMissing(DOMAIN cur.before.PoolAFPaths), StoreList,
                          adverts, populateLocalPools(node)).desired

\* C6 as stated: in a call in which the router rejected an apply, every key
\* whose desired route policies or desired paths differ from what is
\* retained had its apply attempted, and the returned error joins the
\* failures.
C6_EveryChangedKeyIsAttempted ==
    HasReturned /\ FailedOps # {} /\ cur.changes = 0 =>
        /\ \A k \in DOMAIN cur.desiredRPs :
              cur.desiredRPs[k] # Get(cur.before.PoolRoutePolicies, k)
                 => \E o \in cur.ops : o.kind = "routePolicy" /\ o.key = k
        /\ \A k \in DOMAIN DesiredPathsOfInputs :
              DesiredPathsOfInputs[k] # Get(cur.before.PoolAFPaths, k)
                 => \E o \in cur.ops : o.kind = "path" /\ o.key = k
        /\ cur.err = {Err(o.kind, o.key) : o \in FailedOps}

\* C7 as stated: an error of Reconcile that carries the store's
\* uninitialized-state error satisfies the abort sentinel check.
C7_StoreErrorIsAbort ==
    HasReturned /\ ErrStoreUninitialized \in cur.err => IsAbort(cur.err)

\* C8 as stated: a call whose error satisfies the abort sentinel issued no
\* router operation and left both retained mappings as they were.
C8_AbortAppliesNothing ==
    HasReturned /\ IsAbort(cur.err) => cur.ops = {} /\ metadata[cur.inst] = cur.before

\* The label selector accepts the pool: every requirement is met by a label
\* the pool declares or by its name or namespace under the pseudo-label keys.
SelectorAccepts(selector, pool) ==
    /\ selector.Valid
    /\ \A req \in selector.MatchLabels :
          IF req[1] = podIPPoolNameLabel THEN req[2] = pool.Name
          ELSE IF req[1] = podIPPoolNamespaceLabel THEN req[2] = pool.Namespace
          ELSE req \in pool.Labels

\* The returned call derived the desired route policies (RPsDerived) and the
\* desired paths as well (PathsDerived).
RPsDerived == HasReturned /\ OnlyApplyErrors
PathsDerived == HasReturned /\ \A x \in cur.err : x.kind = "path"

\* The call listed the pool and the local node has it allocated.
ListedAndAllocated(pool) ==
    /\ cur.changes = 0 /\ storeInit /\ pool.Name \in poolStore
    /\ pool.Name \in node

\* the single advertisement of the configuration has this selector
OnlyAdvert(selector) ==
    Len(adverts) = 1 /\ adverts[1].Advert.Selector = selector /\ adverts[1].Family.Afi = "ipv4"

PoolTeamA == PoolUniverse[1]

\* whether the call desires a path and a route policy for the pool
Advertised(pool) ==
    /\ Get(cur.desiredPaths, KeyOf(pool)) # {}
    /\ Get(cur.desiredRPs, KeyOf(pool)) # {}
NotAdvertised(pool) ==
    /\ Get(cur.desiredPaths, KeyOf(pool)) = {}
    /\ Get(cur.desiredRPs, KeyOf(pool)) = {}

\* C9: every desired path and every desired route policy of a pool comes
\* from an advertisement (of the path's family, of the policy's peer and
\* family) whose selector accepts the pool's labels, name or namespace; the
\* pool labelled team=a is advertised under selector team=a, not under
\* team=b, and is advertised under a selector naming it.
C9_SelectorDecidesAdvertisement ==
    /\ HasReturned =>
          /\ \A k \in DOMAIN cur.desiredPaths : \A path \in cur.desiredPaths[k] :
                \E n \in DOMAIN adverts :
                    /\ ToAgentFamily(adverts[n].Family) = path.Family
                    /\ SelectorAccepts(adverts[n].Advert.Selector, PoolByName(k.Name))
          /\ \A k \in DOMAIN cur.desiredRPs : \A policy \in cur.desiredRPs[k] :
                \E n \in DOMAIN adverts :
                    /\ adverts[n].Peer.Name = policy.Name[1]
                    /\ adverts[n].Family.Afi = policy.Name[2]
                    /\ SelectorAccepts(adverts[n].Advert.Selector, PoolByName(k.Name))
    /\ PathsDerived /\ ListedAndAllocated(PoolTeamA) =>
          /\ OnlyAdvert(SelTeamA) => Advertised(PoolTeamA)
          /\ OnlyAdvert(SelTeamB) => NotAdvertised(PoolTeamA)
          /\ OnlyAdvert(SelName1) => Advertised(PoolTeamA)

\* C9 witness: the pool labelled team=a, selected by its name alone, has been
\* advertised, and the other pool, listed and allocated too, has not.
C9_Witness ==
    /\ ReturnedOK /\ OnlyAdvert(SelName1)
    /\ ListedAndAllocated(PoolTeamA) /\ ListedAndAllocated(PoolUniverse[2])
    /\ Advertised(PoolTeamA) /\ NotAdvertised(PoolUniverse[2])
    /\ Get(metadata[cur.inst].PoolAFPaths, KeyOf(PoolTeamA)) # {}

\* the pool had something advertised when the call began
AdvertisedBefore(k) ==
    Get(cur.before.PoolRoutePolicies, k) # {} \/ Get(cur.before.PoolAFPaths, k) # {}

\* no path and no route policy is desired for a pool the node has not allocated
NotAllocatedNotDesired ==
    HasReturned =>
        /\ \A k \in DOMAIN cur.desiredRPs : k.Name \notin node => cur.desiredRPs[k] = {}
        /\ \A k \in DOMAIN cur.desiredPaths : k.Name \notin node => cur.desiredPaths[k] = {}

\* C10 as stated: a pool the local node has not allocated yields no desired
\* path and no desired route policy, and a pool advertised before that has
\* lost its allocation is withdrawn by the next Reconcile (here for calls
\* whose only errors can be router rejections).
C10_UnallocatedPoolIsWithdrawn ==
    /\ NotAllocatedNotDesired
    /\ RPsDerived =>
          \A k \in DOMAIN cur.desiredRPs :
              k.Name \notin node /\ AdvertisedBefore(k) => Withdrawn(k)

\* C10 amended: ... is withdrawn by the next Reconcile that returns no error.
C10_UnallocatedPoolIsWithdrawnOnSuccess ==
    /\ NotAllocatedNotDesired
    /\ ReturnedOK =>
          \A k \in DOMAIN cur.desiredRPs \cap DOMAIN cur.desiredPaths :
              k.Name \notin node => Withdrawn(k)

\* C10 witness: a pool still in the store and still selected, advertised
\* before, has lost its allocation and the call has withdrawn its policies
\* and paths.
C10_Witness ==
    /\ ReturnedOK
    /\ \E k \in Keys :
          /\ k.Name \notin node /\ k.Name \in poolStore /\ cur.changes = 0
          /\ \E n \in DOMAIN adverts : SelectorAccepts(adverts[n].Advert.Selector, PoolByName(k.Name))
          /\ Get(cur.before.PoolRoutePolicies, k) # {}
          /\ Get(cur.before.PoolAFPaths, k) # {}
          /\ Withdrawn(k)

\* The prefixes the local node carries for the pool, by IP version
AllocatedPrefixes(pool, is4) ==
    {x \in {ToPrefix(NodeCIDRs(pool.Name)[n]) : n \in DOMAIN NodeCIDRs(pool.Name)} :
        x.Valid /\ x.Is4 = is4}

\* An advertisement under the family whose selector accepts the pool
SelectedUnder(family, pool) ==
    \E n \in DOMAIN adverts :
        /\ adverts[n].Family = family
        /\ SelectorAccepts(adverts[n].Advert.Selector, pool)

\* the desired paths of the key under the family
DesiredPathsUnder(k, family) ==
    {path \in Get(cur.desiredPaths, k) : path.Family = ToAgentFamily(family)}

PoolOneV4Prefix == PoolUniverse[2]

\* C11: for a listed, locally allocated pool selected by an advertisement
\* under family F, the desired paths under F are exactly one path per
\* allocated prefix of F's IP version, and no desired path carries a prefix
\* of the other IP version; the pool with one allocated IPv4 prefix and one
\* IPv4 advertisement selecting all pools gets exactly one path, under IPv4,
\* and a call without error has applied it.
C11_OnePathPerPrefixOfTheFamily ==
    PathsDerived =>
        /\ \A pool \in Pools : \A family \in Families :
              ListedAndAllocated(pool) /\ SelectedUnder(family, pool) =>
                  DesiredPathsUnder(KeyOf(pool), family) =
                      {Path(x, ToAgentFamily(family)) :
                          x \in AllocatedPrefixes(pool, family.Afi = "ipv4")}
        /\ \A k \in DOMAIN cur.desiredPaths : \A path \in cur.desiredPaths[k] :
              path.Prefix.Is4 <=> path.Family.Afi = "AfiIPv4"
        /\ ListedAndAllocated(PoolOneV4Prefix) /\ Len(adverts) = 1
              /\ adverts[1].Family.Afi = "ipv4" /\ adverts[1].Advert.Selector = SelAll =>
                  /\ Cardinality(cur.desiredPaths[KeyOf(PoolOneV4Prefix)]) = 1
                  /\ \A path \in cur.desiredPaths[KeyOf(PoolOneV4Prefix)] :
                        path.Family.Afi = "AfiIPv4" /\ path.Prefix.Addr = "10.2.0.0"
                  /\ cur.err = {} =>
                        router[cur.inst].paths[KeyOf(PoolOneV4Prefix)]
                            = cur.desiredPaths[KeyOf(PoolOneV4Prefix)]

\* C11 witness: a pool with an IPv4 and an IPv6 prefix, advertised under both
\* families, has one path under each applied.
C11_Witness ==
    /\ ReturnedOK
    /\ ListedAndAllocated(PoolTeamA)
    /\ \A family \in Families : SelectedUnder(family, PoolTeamA)
    /\ \A family \in Families : Cardinality(DesiredPathsUnder(KeyOf(PoolTeamA), family)) = 1
    /\ router[cur.inst].paths[KeyOf(PoolTeamA)] = cur.desiredPaths[KeyOf(PoolTeamA)]

\* The advertisements of peers with a valid address, under the family, whose
\* selector accepts the pool
PolicySources(pool) ==
    {n \in DOMAIN adverts :
        /\ ParseAddrOK(adverts[n].Peer.Address)
        /\ SelectorAccepts(adverts[n].Advert.Selector, pool)}

\* the name a policy of the advertisement has for the pool
NameFor(n, pool) ==
    <<adverts[n].Peer.Name, adverts[n].Family.Afi, adverts[n].Advert.AdvertisementType, pool.Name>>

\* the prefix matches expected of the pool's prefixes of one IP version
ExactMatches(pool, is4) ==
    {[CIDR |-> x, PrefixLenMin |-> m, PrefixLenMax |-> m] :
        <<x, m>> \in AllocatedPrefixes(pool, is4)
                        \X {IF is4 THEN pool.IPv4MaskSize ELSE pool.IPv6MaskSize}}

\* C12: for a listed, locally allocated pool, every advertisement of a peer
\* with a valid address under family F whose selector accepts the pool gives
\* one desired policy, named by (peer name, family, advertisement type, pool
\* name), holding one prefix match per allocated prefix of F's IP version
\* with minimum and maximum length equal to the pool's mask size of that IP
\* version and no match of the other version; when no allocated prefix has
\* F's IP version there is no policy of that name; and the pool has no
\* policy of any other name.
C12_PolicyPerPeerAndFamily ==
    RPsDerived =>
        \A pool \in Pools : ListedAndAllocated(pool) =>
            LET desired == Get(cur.desiredRPs, KeyOf(pool))
                named(name) == {q \in desired : q.Name = name}
            IN  /\ \A n \in PolicySources(pool) :
                      LET is4 == adverts[n].Family.Afi = "ipv4"
                      IN  IF AllocatedPrefixes(pool, is4) = {}
                          THEN named(NameFor(n, pool)) = {}
                          ELSE /\ Cardinality(named(NameFor(n, pool))) = 1
                               /\ \A q \in named(NameFor(n, pool)) :
                                     /\ q.PeerAddr = adverts[n].Peer.Address
                                     /\ Range(q.V4) = (IF is4 THEN ExactMatches(pool, TRUE) ELSE {})
                                     /\ Len(q.V4) = Cardinality(Range(q.V4))
                                     /\ Range(q.V6) = (IF is4 THEN {} ELSE ExactMatches(pool, FALSE))
                                     /\ Len(q.V6) = Cardinality(Range(q.V6))
                /\ \A q \in desired : \E n \in PolicySources(pool) : q.Name = NameFor(n, pool)

\* C12 witness: the pool with masks 24 and 64 has, for one peer, a policy
\* under IPv4 and a policy under IPv6, each with one prefix match, and the
\* call has pushed them.
C12_Witness ==
    /\ ReturnedOK
    /\ ListedAndAllocated(PoolTeamA)
    /\ Cardinality(cur.desiredRPs[KeyOf(PoolTeamA)]) = 2
    /\ \E q \in cur.desiredRPs[KeyOf(PoolTeamA)] :
          Len(q.V4) = 1 /\ q.V4[1].PrefixLenMin = 24 /\ q.V4[1].PrefixLenMax = 24 /\ q.V6 = << >>
    /\ \E q \in cur.desiredRPs[KeyOf(PoolTeamA)] :
          Len(q.V6) = 1 /\ q.V6[1].PrefixLenMin = 64 /\ q.V6[1].PrefixLenMax = 64 /\ q.V4 = << >>
    /\ router[cur.inst].rps[KeyOf(PoolTeamA)] = cur.desiredRPs[KeyOf(PoolTeamA)]

\* The steps in which an Init call and a Cleanup call are made
InitStep == cur.pc = "idle" /\ cur'.pc = "initReturned"
CleanupStep == cur.pc = "idle" /\ cur'.pc = "cleanupReturned"

\* some instance retains a policy and a path
Retains(i) ==
    /\ i \in DOMAIN metadata
    /\ DOMAIN metadata[i].PoolRoutePolicies # {}
    /\ DOMAIN metadata[i].PoolAFPaths # {}

\* C13: an Init call with a nil instance returns an error and leaves the
\* metadata of every instance, and the set of instances that have metadata,
\* as they were.
C13_InitNilFails ==
    [][InitStep /\ cur'.inst = NoInstance => cur'.err # {} /\ metadata' = metadata]_vars

\* C13 witness: Init with a nil instance has returned its error while an
\* instance retains policies and paths.
C13_Witness ==
    /\ cur.pc = "initReturned" /\ cur.inst = NoInstance /\ cur.err # {}
    /\ \E i \in Instances : Retains(i)

\* C14 as stated: an Init call for an instance leaves it with an entry whose
\* two mappings are empty, a Cleanup call leaves it without entry, and no
\* other step (no step of a Reconcile) changes which instances have an
\* entry; so an instance has an entry exactly when Init has been called for
\* it and Cleanup has not been called for it since.
C14_OnlyInitAndCleanupMakeEntries ==
    [][/\ InitStep /\ cur'.inst # NoInstance =>
             /\ cur'.inst \in DOMAIN metadata'
             /\ metadata'[cur'.inst] = EmptyMetadata
       /\ CleanupStep => cur'.inst \notin DOMAIN metadata'
       /\ ~InitStep /\ ~CleanupStep => DOMAIN metadata' = DOMAIN metadata]_vars

\* C15: a Cleanup call returns no error, leaves the given instance without
\* metadata and the metadata of every other instance as it was, changes
\* nothing when the instance is nil or has no metadata, and leaves every
\* router as it was.
C15_CleanupDiscardsOneInstance ==
    [][CleanupStep =>
          /\ cur'.err = {}
          /\ router' = router
          /\ DOMAIN metadata' = DOMAIN metadata \ {cur'.inst}
          /\ \A j \in DOMAIN metadata' : metadata'[j] = metadata[j]
          /\ cur'.inst \notin DOMAIN metadata => metadata' = metadata]_vars

\* C15 witness: Cleanup has returned for an instance that retained policies,
\* its retained metadata is gone, its router still holds the policies, and
\* the other instance retains its own.
C15_Witness ==
    /\ cur.pc = "cleanupReturned" /\ cur.inst = "i1"
    /\ "i1" \notin DOMAIN metadata
    /\ \E k \in Keys : router["i1"].rps[k] # {}
    /\ Retains("i2")

\* C16 as stated: while Reconcile calls of two different instances run at the
\* same time, no access of one call to r.metadata overlaps a conflicting
\* access of the other, the program is never stopped for such an overlap,
\* and a call that has returned leaves its instance with the metadata it
\* computed, as it would running alone.
C16_ConcurrentCallsAreSafe ==
    \A i \in Instances :
        /\ cur[i].pc = "running" /\ cur[i].inside =>
               Conflicts(i, MetadataAccesses[cur[i].at]) = {}
        /\ cur[i].pc # "fatal"
        /\ cur[i].pc = "returned" /\ cur[i].at = Len(MetadataAccesses) =>
               metadata[i] = cur[i].local

\* C17 as stated: a Reconcile whose context was cancelled before the call or
\* between two of its steps returns a cancellation error, and its retained
\* metadata holds exactly what the router accepted before the cancellation.
C17_CancelledCallReturnsCancellation ==
    HasReturned /\ cur.ctxDone =>
        /\ ErrCanceled \in cur.err
        /\ \A k \in Keys :
              /\ Get(metadata[cur.inst].PoolRoutePolicies, k) = router[cur.inst].rps[k]
              /\ Get(metadata[cur.inst].PoolAFPaths, k) = router[cur.inst].paths[k]

\* A call that ran on inputs and a store unchanged since the previous call of
\* the instance, in which the router rejected applies and nothing else went
\* wrong, and in which again nothing but the router's rejections goes wrong.
RetryCall ==
    /\ HasReturned /\ OnlyApplyErrors /\ cur.changes = 0
    /\ synced[cur.inst].state = "applyFailed"

\* what the call found retained and what it desires, for a kind of resource
RetainedFor(kind, k) ==
    IF kind = "routePolicy" THEN Get(cur.before.PoolRoutePolicies, k)
    ELSE Get(cur.before.PoolAFPaths, k)
DesiredFor(kind, k) ==
    IF kind = "routePolicy" THEN Get(cur.desiredRPs, k) ELSE Get(cur.desiredPaths, k)

\* C18: in the cycle that follows a cycle in which the router rejected the
\* apply of key K, the inputs being the same, the same delta is asked of the
\* router for K again; if the router rejects it again the call returns an
\* error that holds K's failure; and no router operation is issued for a key
\* whose retained value already equals its desired value.
C18_RejectedDeltaIsRetried ==
    RetryCall =>
        /\ \A o \in synced[cur.inst].failed :
              /\ \E x \in cur.ops : x.kind = o.kind /\ x.key = o.key
              /\ RetainedFor(o.kind, o.key) = o.from
              /\ DesiredFor(o.kind, o.key) = o.to
              /\ Op(o.kind, o.key, FALSE) \in cur.ops =>
                    cur.err # {} /\ Err(o.kind, o.key) \in cur.err
        /\ \A x \in cur.ops : RetainedFor(x.kind, x.key) # DesiredFor(x.kind, x.key)

\* C18 witness: the router has rejected for the second time in a row the
\* withdrawal of one key's policies, the error names the key, and another
\* key, converged in the cycle before, had nothing asked for it.
C18_Witness ==
    /\ RetryCall
    /\ \E o \in synced[cur.inst].failed :
          /\ o.kind = "routePolicy" /\ o.from # {}
          /\ Op(o.kind, o.key, FALSE) \in cur.ops
          /\ Err(o.kind, o.key) \in cur.err
          /\ \E k \in Keys \ {o.key} :
                /\ Get(cur.before.PoolRoutePolicies, k) # {}
                /\ \A x \in cur.ops : x.key # k

\* The advertisements whose selector does not convert or whose peer has an
\* address that does not parse
BadAdverts ==
    {n \in DOMAIN adverts :
        \/ ~adverts[n].Advert.Selector.Valid
        \/ adverts[n].Peer.Address # "" /\ ~ParseAddrOK(adverts[n].Peer.Address)}

\* C19 as stated: when one advertisement has a selector that does not
\* convert or a peer address that does not parse, the call still derives and
\* applies what the other advertisements give: with no rejection by the
\* router, every listed and allocated pool has, for each sound advertisement
\* that selects it, its paths of that family and its policy of that peer and
\* family on the router.
C19_OnlyTheBadItemIsSkipped ==
    HasReturned /\ BadAdverts # {} /\ FailedOps = {} =>
        \A pool \in Pools : ListedAndAllocated(pool) =>
            \A n \in DOMAIN adverts \ BadAdverts :
                LET is4 == adverts[n].Family.Afi = "ipv4"
                    wanted == SelectorAccepts(adverts[n].Advert.Selector, pool)
                                 /\ AllocatedPrefixes(pool, is4) # {}
                IN  /\ wanted =>
                          {Path(x, ToAgentFamily(adverts[n].Family)) : x \in AllocatedPrefixes(pool, is4)}
                              \subseteq router[cur.inst].paths[KeyOf(pool)]
                    /\ wanted /\ ParseAddrOK(adverts[n].Peer.Address) =>
                          \E q \in router[cur.inst].rps[KeyOf(pool)] : q.Name = NameFor(n, pool)

\* no advertisement of the configuration selects the pool
Unselected(pool) ==
    \A n \in DOMAIN adverts : ~SelectorAccepts(adverts[n].Advert.Selector, pool)

\* C20 as stated: in the desired mappings a call computes, a pool of the
\* store that no advertisement selects has no entry.
C20_UnselectedPoolHasNoEntry ==
    \A pool \in Pools : pool.Name \in poolStore /\ Unselected(pool) =>
        /\ RPsDerived => KeyOf(pool) \notin DOMAIN cur.desiredRPs
        /\ PathsDerived => KeyOf(pool) \notin DOMAIN cur.desiredPaths

\* The instance a step is made for: that of the call it begins, or of the
\* call in flight
ActingInstance == IF cur.pc = "idle" THEN cur'.inst ELSE cur.inst

\* C21: a step of a Reconcile, Init or Cleanup call for one instance leaves
\* every other instance with the metadata entry it had (or without one) and
\* its router with what it held.
C21_OtherInstancesUntouched ==
    [][\A b \in Instances \ {ActingInstance} :
          /\ router'[b] = router[b]
          /\ b \in DOMAIN metadata' <=> b \in DOMAIN metadata
          /\ b \in DOMAIN metadata => metadata'[b] = metadata[b]]_vars

\* C21 witness: a Reconcile for one instance has returned after router
\* operations, one of them rejected, while the other instance retains its
\* own policies and paths and its router holds them.
C21_Witness ==
    /\ HasReturned /\ cur.inst = "i1"
    /\ AppliedOps # {} /\ FailedOps # {}
    /\ Retains("i2")
    /\ metadata["i2"] # metadata["i1"]
    /\ \E k \in Keys : router["i2"].paths[k] # {}

\* C22: a key whose desired value equals, by content, the value the call
\* found retained has no router operation issued for it, of either kind and
\* whatever happens to the other keys in the call; and a pool for which no
\* route policy was retained and none is desired gets no retained entry.
C22_UnchangedKeyIsSkipped ==
    cur.pc # "idle" =>
        /\ \A x \in cur.ops : RetainedFor(x.kind, x.key) # DesiredFor(x.kind, x.key)
        /\ \A k \in DOMAIN cur.desiredRPs :
              k \notin DOMAIN cur.before.PoolRoutePolicies /\ cur.desiredRPs[k] = {} =>
                  /\ \A x \in cur.ops : ~(x.kind = "routePolicy" /\ x.key = k)
                  /\ k \notin DOMAIN metadata[cur.inst].PoolRoutePolicies

\* C22 witness: in one call the router accepted a change of one key's
\* policies and of its paths while another key, whose retained policies and
\* paths are the desired ones, had nothing asked for it.
C22_Witness ==
    /\ ReturnedOK
    /\ \E k, u \in Keys :
          /\ k # u
          /\ Op("routePolicy", k, TRUE) \in cur.ops /\ Op("path", k, TRUE) \in cur.ops
          /\ RetainedFor("routePolicy", u) # {}
          /\ RetainedFor("routePolicy", u) = DesiredFor("routePolicy", u)
          /\ RetainedFor("path", u) # {}
          /\ RetainedFor("path", u) = DesiredFor("path", u)
          /\ \A x \in cur.ops : x.key # u

\* C23: within a call the route policies are reconciled before the paths: a
\* step that issues a route-policy operation leaves the call without any
\* path operation issued, in that step or before it.
C23_PoliciesBeforePaths ==
    [][(\E x \in cur'.ops \ cur.ops : x.kind = "routePolicy") =>
          \A y \in cur'.ops : y.kind # "path"]_vars

\* C23 witness: a call has issued route-policy operations and then path
\* operations, the router accepting the former and rejecting one of the
\* latter.
C23_Witness ==
    /\ HasReturned
    /\ \E x \in AppliedOps : x.kind = "routePolicy"
    /\ \E y \in FailedOps : y.kind = "path"
    /\ \E y \in AppliedOps : y.kind = "path"

\* A pool in the store for the whole call, with route policies retained when
\* the call began and none desired by the call
NothingLeftDesired(k) ==
    /\ cur.changes = 0 /\ storeInit /\ k.Name \in poolStore
    /\ k \in DOMAIN cur.desiredRPs /\ cur.desiredRPs[k] = {}
    /\ Get(cur.before.PoolRoutePolicies, k) # {}

\* C24: for a pool still in the store whose desired route-policy set is
\* empty while route policies are retained for its key, Reconcile asks the
\* router to withdraw all of them; if the router accepts, the key is deleted
\* from the retained PoolRoutePolicies and the router holds none of the
\* key's policies; if the router rejects, the key stays with what was
\* retained.
C24_EmptyDesiredWithdrawsAndDeletes ==
    HasReturned =>
        \A k \in Keys : NothingLeftDesired(k) =>
            /\ \E ok \in BOOLEAN : Op("routePolicy", k, ok) \in cur.ops
            /\ Op("routePolicy", k, TRUE) \in cur.ops =>
                  /\ k \notin DOMAIN metadata[cur.inst].PoolRoutePolicies
                  /\ router[cur.inst].rps[k] = {}
            /\ Op("routePolicy", k, FALSE) \in cur.ops =>
                  /\ k \in DOMAIN metadata[cur.inst].PoolRoutePolicies
                  /\ metadata[cur.inst].PoolRoutePolicies[k] = cur.before.PoolRoutePolicies[k]
                  /\ router[cur.inst].rps[k] # {}

\* C24 witness: the advertisements were removed from the configuration
\* while a pool stayed in the store and allocated; the call withdrew the
\* pool's policies, the router accepting, and deleted the key.
C24_Witness ==
    /\ HasReturned /\ adverts = <<>>
    /\ \E k \in Keys :
          /\ NothingLeftDesired(k) /\ k.Name \in node
          /\ Op("routePolicy", k, TRUE) \in cur.ops
          /\ k \notin DOMAIN metadata[cur.inst].PoolRoutePolicies

\* C25 as stated: in each sub-pass every key the call found retained is a
\* key of the desired mapping the sub-pass builds, whatever the store does
\* between the lookups of the retained keys and the listing of the pools.
C25_RetainedKeysAreCovered ==
    HasReturned =>
        /\ OnlyApplyErrors =>
              DOMAIN cur.before.PoolRoutePolicies \subseteq DOMAIN cur.desiredRPs
        /\ (\A x \in cur.err : x.kind = "path") =>
              DOMAIN cur.before.PoolAFPaths \subseteq DOMAIN cur.desiredPaths

----------------------------------------------------------------------------
(* Reconcile invoked again and again for an instance initialised once, on    *)
(* inputs that come to rest: the store is initialised, pools are only        *)
(* deleted and allocations only released, so that the inputs change finitely *)
(* often; the configuration stays.  The caller keeps invoking Reconcile with *)
(* valid parameters and takes every call to its end (weak fairness of the    *)
(* steps); the router may reject applies but does not reject the applies of  *)
(* a sub-pass for ever (strong fairness of the accepted applies).            *)

LiveInit ==
    /\ metadata = [i \in {} |-> EmptyMetadata]
    /\ router = [i \in Instances |-> EmptyRouter]
    /\ storeInit = TRUE
    /\ poolStore \in SUBSET PoolNames
    /\ node \in SUBSET PoolNames
    /\ adverts \in AdvertConfigs
    /\ poolLabels = DeclaredLabels
    /\ synced = Unsynced
    /\ cur = IdleCall

\* Init of an instance not yet initialised
InitOnce(i) == i \notin DOMAIN metadata /\ InitInstance(i)

\* The node releases allocations.
NodeRelease(allocated) == allocated \subseteq node /\ NodeUpdate(allocated)

\* The steps of the reconciler and of its caller
LiveSteps ==
    \/ \E i \in Managed : InitOnce(i)
    \/ \E i \in Managed : ReconcileBegin(i, {})
    \/ RoutePolicyCheckDeleted
    \/ RoutePolicyApply
    \/ PathCheckDeleted
    \/ PathApply
    \/ ReconcileEnd

\* A sub-pass all of whose applies the router accepts
RoutePoliciesAccepted == RoutePolicyApply /\ \A o \in cur'.ops : o.ok
PathsAccepted == PathApply /\ \A o \in cur'.ops : o.ok

LiveNext ==
    \/ \E name \in PoolNames : StoreDelete(name)
    \/ \E allocated \in SUBSET PoolNames : NodeRelease(allocated)
    \/ LiveSteps

LiveSpec ==
    /\ LiveInit /\ [][LiveNext]_vars
    /\ WF_vars(LiveSteps)
    /\ SF_vars(RoutePoliciesAccepted) /\ SF_vars(PathsAccepted)

\* What the present inputs make desired
DesiredRPsNow ==
    getDesiredPodIPPoolRoutePolicies({}, StoreList, adverts, populateLocalPools(node))
DesiredPathsNow ==
    getDesiredPoolAFPaths({}, StoreList, adverts, populateLocalPools(node))

\* The desired state can be derived from the present inputs.
Derivable == DesiredRPsNow.err = {} /\ DesiredPathsNow.err = {}

\* The instance's retained metadata and its router hold the desired state of
\* the present inputs, and the call in flight or just returned, if any, has
\* no error and has issued no operation.
Settled(i) ==
    /\ i \in DOMAIN metadata
    /\ metadata[i].PoolRoutePolicies = NonEmptyPart(DesiredRPsNow.desired)
    /\ metadata[i].PoolAFPaths = NonEmptyPart(DesiredPathsNow.desired)
    /\ \A k \in Keys :
          /\ router[i].rps[k] = Get(DesiredRPsNow.desired, k)
          /\ router[i].paths[k] = Get(DesiredPathsNow.desired, k)
    /\ cur.err = {} /\ cur.ops = {}

C27_EarlyErrorsTouchNothing ==
    cur.pre # {} =>
        /\ HasReturned /\ cur.err = cur.pre
        /\ cur.ops = {} /\ cur.seen = {} /\ cur.marked = {} /\ cur.changes = 0
        /\ cur.desiredRPs = EmptyMap /\ cur.desiredPaths = EmptyMap
        /\ metadata[cur.inst] = cur.before

\* C27 witness: a call returned the advertisement-resolution error while
\* the instance retained policies and paths of a pool that has left the
\* initialised store, which a call going on would have withdrawn.
C27_Witness ==
    /\ HasReturned /\ cur.err = {Err("advertisements", NoKey)}
    /\ storeInit /\ poolStore = {}
    /\ cur.before.PoolRoutePolicies # EmptyMap /\ cur.before.PoolAFPaths # EmptyMap
    /\ metadata[cur.inst] = cur.before

\* The positions of the pool's CIDR strings that parse
Parsing(name) == {n \in DOMAIN NodeCIDRs(name) : ToPrefix(NodeCIDRs(name)[n]).Valid}

\* C28: the local pool map is built for whatever the node carries: every
\* allocated pool has an entry, the entry holds one prefix for each of the
\* pool's CIDRs that parses and nothing for one that does not, be the entry
\* left without prefix; and a Reconcile goes on with it, the paths it desires
\* for an allocated pool carrying prefixes of the pool's entry only.
C28_UnparsedCIDRIsSkipped ==
    LET lp == populateLocalPools(node)
    IN  /\ DOMAIN lp = node
        /\ \A name \in node :
              /\ Len(lp[name]) = Cardinality(Parsing(name))
              /\ \A n \in Parsing(name) : ToPrefix(NodeCIDRs(name)[n]) \in Range(lp[name])
              /\ \A x \in Range(lp[name]) : x.Valid
        /\ HasReturned =>
              \A k \in DOMAIN cur.desiredPaths : \A path \in cur.desiredPaths[k] :
                  k.Name \in node /\ path.Prefix \in Range(lp[k.Name])

\* C28 witness: the node carries a pool with a CIDR that does not parse
\* before one that does, and an allocation none of whose CIDRs parses, which
\* has an entry without prefix; the call returned without error with the
\* path of the CIDR that parses applied.
C28_Witness ==
    /\ ReturnedOK
    /\ {"p2", UnparsedAllocation} \subseteq node
    /\ Parsing("p2") # DOMAIN NodeCIDRs("p2")
    /\ populateLocalPools(node)[UnparsedAllocation] = << >>
    /\ \E path \in router[cur.inst].paths[KeyOf(PoolByName("p2"))] : path.Prefix.Addr = "10.2.0.0"

\* C29 as stated: no key of an instance's retained PoolRoutePolicies maps to
\* an empty set of policies, whatever calls were made and whatever the
\* router rejected.
C29_NoEmptyRetainedEntry ==
    \A i \in DOMAIN metadata :
        \A k \in DOMAIN metadata[i].PoolRoutePolicies :
            metadata[i].PoolRoutePolicies[k] # {}

\* C30: after a Reconcile that returned no error, every key of the
\* instance's retained PoolRoutePolicies and PoolAFPaths is the key of a
\* pool that a store read of that call found or listed.
C30_RetainedKeysAreOfStoredPools ==
    ReturnedOK =>
        \A k \in DOMAIN metadata[cur.inst].PoolRoutePolicies
                  \cup DOMAIN metadata[cur.inst].PoolAFPaths :
            k.Name \in cur.seen

\* C30 witness: a call returned without error; one pool it listed is
\* retained in both mappings, the other, retained in both when the call
\* began, had left the store and is retained in neither.
C30_Witness ==
    /\ ReturnedOK
    /\ \E k, u \in Keys :
          /\ k.Name \in cur.seen
          /\ k \in DOMAIN metadata[cur.inst].PoolRoutePolicies
          /\ k \in DOMAIN metadata[cur.inst].PoolAFPaths
          /\ u.Name \notin cur.seen
          /\ u \in DOMAIN cur.before.PoolRoutePolicies
          /\ u \in DOMAIN cur.before.PoolAFPaths
          /\ u \notin DOMAIN metadata[cur.inst].PoolRoutePolicies
          /\ u \notin DOMAIN metadata[cur.inst].PoolAFPaths

\* C31: a step of the route-policy sub-pass that ends in an error, be it a
\* store error, a derivation error or the router's rejections, is the last
\* step of the call: the call returns with that error, no path operation is
\* issued, the retained PoolAFPaths are what the call found, and every
\* route-policy change the router accepted is retained and held by the
\* router.
C31_RoutePolicyErrorEndsTheCall ==
    [][cur.pc \in {"rpKeys", "rpList"} /\ cur'.err # {} =>
          /\ cur'.pc = "returned"
          /\ \A x \in cur'.ops : x.kind = "routePolicy"
          /\ metadata'[cur.inst].PoolAFPaths = cur.before.PoolAFPaths
          /\ router'[cur.inst].paths = router[cur.inst].paths
          /\ \A x \in cur'.ops : x.ok =>
                /\ Get(metadata'[cur.inst].PoolRoutePolicies, x.key) = cur'.desiredRPs[x.key]
                /\ router'[cur.inst].rps[x.key] = cur'.desiredRPs[x.key]]_vars

\* C31 witness: the router accepted the policies of one key and rejected
\* those of another; the call returned the error with the accepted policies
\* retained, without any path operation although paths are desired that are
\* not retained.
C31_Witness ==
    /\ HasReturned /\ cur.changes = 0 /\ Derivable
    /\ \E x \in FailedOps : x.kind = "routePolicy"
    /\ \E x \in AppliedOps :
          /\ x.kind = "routePolicy"
          /\ metadata[cur.inst].PoolRoutePolicies[x.key] = cur.desiredRPs[x.key]
          /\ cur.desiredRPs[x.key] # {}
    /\ \A x \in cur.ops : x.kind # "path"
    /\ metadata[cur.inst].PoolAFPaths = cur.before.PoolAFPaths
    /\ metadata[cur.inst].PoolAFPaths # NonEmptyPart(DesiredPathsNow.desired)

\* A Reconcile call that found the two empty mappings Init leaves
AfterInit == cur.pc \notin {"idle", "initReturned", "cleanupReturned"} /\ cur.before = EmptyMetadata

\* C32: an Init call leaves every router as it was and the instance, whatever
\* it retained, with two empty mappings; the Reconcile that finds them marks
\* no key for withdrawal and asks the router for every key with a non-empty
\* desired set of policies or of paths, as for a new one.
C32_InitForgetsWithoutWithdrawing ==
    [][/\ InitStep =>
             /\ router' = router
             /\ cur'.inst # NoInstance => metadata'[cur'.inst] = EmptyMetadata
       /\ AfterInit' =>
             /\ cur'.marked = {}
             /\ \A k \in DOMAIN cur'.desiredRPs : cur'.desiredRPs[k] # {} =>
                   \E x \in cur'.ops : x.kind = "routePolicy" /\ x.key = k
             /\ \A k \in DOMAIN cur'.desiredPaths : cur'.desiredPaths[k] # {} =>
                   \E x \in cur'.ops : x.kind = "path" /\ x.key = k]_vars

\* C32 witness: Init has returned for an instance that retained policies
\* and paths; its mappings are empty and its router still holds the policies
\* and the paths.
C32_Witness ==
    /\ cur.pc = "initReturned" /\ cur.inst = "i1" /\ cur.err = {}
    /\ metadata["i1"] = EmptyMetadata
    /\ \E k \in Keys : router["i1"].rps[k] # {} /\ router["i1"].paths[k] # {}

\* The advertisements from which a policy of the same name as that of
\* advertisement n is derived for the pool
SameName(n, pool) == {m \in PolicySources(pool) : NameFor(m, pool) = NameFor(n, pool)}

\* the greatest of a non-empty set of positions
Last(positions) == CHOOSE m \in positions : \A x \in positions : x <= m

\* C33: the desired route policies of a pool hold at most one policy of a
\* name, so at most one for a peer name and a family; where several
\* advertisements of one peer and family give a policy for a listed and
\* allocated pool, the policy of that name is the one made of the last of
\* them in list order, carrying what that advertisement carries.
C33_LaterAdvertisementReplaces ==
    RPsDerived =>
        /\ \A k \in DOMAIN cur.desiredRPs : \A q, r \in cur.desiredRPs[k] :
              q.Name = r.Name => q = r
        /\ \A pool \in Pools : ListedAndAllocated(pool) =>
              \A n \in PolicySources(pool) :
                  AllocatedPrefixes(pool, adverts[n].Family.Afi = "ipv4") # {} =>
                      \A q \in cur.desiredRPs[KeyOf(pool)] :
                          q.Name = NameFor(n, pool) =>
                              q.Attributes = adverts[Last(SameName(n, pool))].Advert.Attributes

\* C33 witness: two advertisements of one peer and family that carry
\* different things both select an allocated pool; the pool has the one
\* policy of that name, made of the second, and the router holds it.
C33_Witness ==
    /\ ReturnedOK /\ ListedAndAllocated(PoolTeamA)
    /\ Len(adverts) = 2
    /\ adverts[1].Peer = adverts[2].Peer /\ adverts[1].Family = adverts[2].Family
    /\ adverts[1].Advert.Attributes = SomeAttributes
    /\ adverts[2].Advert.Attributes = NoAttributes
    /\ 1 \in PolicySources(PoolTeamA) /\ 2 \in PolicySources(PoolTeamA)
    /\ Cardinality(router[cur.inst].rps[KeyOf(PoolTeamA)]) = 1
    /\ \A q \in router[cur.inst].rps[KeyOf(PoolTeamA)] : q.Attributes = NoAttributes

\* The advertisements of peers that have no address
NoAddressAdverts == {n \in DOMAIN adverts : adverts[n].Peer.Address = ""}

\* The configuration with every advertisement placed under the one peer
UnderPeer(peer) == [n \in DOMAIN adverts |-> [adverts[n] EXCEPT !.Peer = peer]]

\* C34: a peer whose address is empty gives no route policy for any pool and
\* no error: a call whose other advertisements are sound returns nothing but
\* the router's rejections.  The desired paths of a listed and allocated
\* pool are, per family, the paths of its allocated prefixes of the family's
\* IP version if some advertisement under the family, of whatever peer,
\* selects the pool, and none otherwise; they are what the same
\* advertisements give placed under any one peer, with or without address.
C34_PeerWithoutAddress ==
    /\ RPsDerived =>
          \A k \in DOMAIN cur.desiredRPs : \A q \in cur.desiredRPs[k] :
              \A n \in NoAddressAdverts : q.Name[1] # adverts[n].Peer.Name
    /\ HasReturned /\ BadAdverts = {} => OnlyApplyErrors
    /\ PathsDerived =>
          \A pool \in Pools : ListedAndAllocated(pool) =>
              /\ \A family \in Families :
                    DesiredPathsUnder(KeyOf(pool), family) =
                        IF SelectedUnder(family, pool)
                        THEN {Path(x, ToAgentFamily(family)) :
                                 x \in AllocatedPrefixes(pool, family.Afi = "ipv4")}
                        ELSE {}
              /\ \A peer \in Peers \cup {PeerNoAddress, PeerBadAddress} :
                    cur.desiredPaths[KeyOf(pool)] =
                        getDesiredAFPaths(pool, UnderPeer(peer), populateLocalPools(node)).paths

\* C34 witness: every advertisement is of the peer without address; the
\* call returned without error, the router holds the paths of a selected
\* pool and no policy of any pool, and no policy is retained.
C34_Witness ==
    /\ ReturnedOK /\ adverts # << >> /\ NoAddressAdverts = DOMAIN adverts
    /\ ListedAndAllocated(PoolTeamA)
    /\ router[cur.inst].paths[KeyOf(PoolTeamA)] # {}
    /\ router[cur.inst].paths[KeyOf(PoolTeamA)] = cur.desiredPaths[KeyOf(PoolTeamA)]
    /\ \A k \in Keys : router[cur.inst].rps[k] = {}
    /\ metadata[cur.inst].PoolRoutePolicies = EmptyMap

\* The keys of a label map
LabelKeys(labelSet) == {l[1] : l \in labelSet}

\* C35: whatever calls were made, the Labels map of every pool object is as
\* it was declared and holds neither the name nor the namespace pseudo-label
\* of the pool; the label set derived from the object holds both, each key
\* once, and every declared label of another key; so a declared label under
\* a pseudo-label key is overridden in the derived set alone.
C35_LabelSetLeavesPoolAlone ==
    \A name \in PoolNames :
        LET pool == StoredPool(name)
            derived == podIPPoolLabelSet(pool)
            pseudo == {<<podIPPoolNameLabel, pool.Name>>, <<podIPPoolNamespaceLabel, pool.Namespace>>}
        IN  /\ poolLabels[name] = DeclaredLabels[name]
            /\ pseudo \cap pool.Labels = {}
            /\ pseudo \subseteq derived
            /\ \A l \in derived : l[1] \in LabelKeys(pseudo) => l \in pseudo
            /\ \A l \in pool.Labels : l[1] \notin LabelKeys(pseudo) => l \in derived

\* C35 witness: the one advertisement selects by the name pseudo-label the
\* pool p1; the pool p2, which declares a label of that key with the value
\* p1, was listed and allocated and its label set derived; it is not
\* advertised, p1 is, and the object of p2 still holds its declared label.
C35_Witness ==
    /\ ReturnedOK /\ OnlyAdvert(SelName1)
    /\ ListedAndAllocated(PoolTeamA) /\ ListedAndAllocated(PoolUniverse[2])
    /\ "p2" \in DerivesForPaths
    /\ router[cur.inst].paths[KeyOf(PoolTeamA)] # {}
    /\ router[cur.inst].paths[KeyOf(PoolUniverse[2])] = {}
    /\ <<podIPPoolNameLabel, "p1">> \in poolLabels["p2"]
    /\ <<podIPPoolNameLabel, "p2">> \notin poolLabels["p2"]

====
